---- MODULE Spec2Model ----
(***************************************************************************)
(* Model of beads_village/server.py: the file-reservation engine           *)
(* (normalize_path, try_atomic_reserve, tool_reserve, tool_release,        *)
(* tool_reservations, tool_status, tool_done) and the mailbox (send_msg,   *)
(* recv_msgs).                                                             *)
(*                                                                         *)
(* Strings that the code takes apart (paths) are sequences of one-char     *)
(* strings; strings it only compares or concatenates are sequences of      *)
(* tokens.  Wall-clock time is an integer that Tick advances.              *)
(***************************************************************************)
EXTENDS Integers, Sequences, FiniteSets, TLC

\* ------------------------------------------------------------------ bounds
MaxTime == 3
MaxBatch == 2
MaxMsgs == 2
MaxPosts == 2

\* ------------------------------------------------------------ the universe
Agents == {"A", "B"}

\* The ttl arguments the model passes to reserve (seconds).
TTLs == {1, 2}

\* WS after init: an absolute, normalized directory (server.py:752).
WS == <<"/", "w">>

SEP == "/"

\* The raw path arguments the model feeds to reserve and release:
\* x, y, ../w/x, ../../e, ..\w2, /w/../e
P_x == <<"x">>
P_y == <<"y">>
P_alias == <<".", ".", "/", "w", "/", "x">>
P_escape == <<".", ".", "/", ".", ".", "/", "e">>
P_sibling == <<".", ".", "\\", "w", "2">>
P_abs == <<"/", "w", "/", ".", ".", "/", "e">>

InputPaths == {P_x, P_y, P_alias, P_escape, P_sibling, P_abs}

\* ------------------------------------------------------- string utilities
StartsWith(s, prefix) ==
    /\ Len(s) >= Len(prefix)
    /\ SubSeq(s, 1, Len(prefix)) = prefix

\* str.replace("\\", "/")
to_posix_path(path) ==
    [i \in 1..Len(path) |-> IF path[i] = "\\" THEN SEP ELSE path[i]]

\* str.split("/")
Split(s) ==
    LET RECURSIVE go(_, _, _)
        go(i, cur, acc) ==
            IF i > Len(s) THEN Append(acc, cur)
            ELSE IF s[i] = SEP THEN go(i + 1, <<>>, Append(acc, cur))
            ELSE go(i + 1, Append(cur, s[i]), acc)
    IN go(1, <<>>, <<>>)

\* "/".join(comps)
JoinComps(comps) ==
    LET RECURSIVE go(_, _)
        go(i, acc) ==
            IF i > Len(comps) THEN acc
            ELSE go(i + 1, IF i = 1 THEN comps[i] ELSE acc \o <<SEP>> \o comps[i])
    IN go(1, <<>>)

isabs(path) == StartsWith(path, <<SEP>>)

\* os.path.join(a, b) on POSIX
join(a, b) ==
    IF isabs(b) THEN b
    ELSE IF a = <<>> \/ a[Len(a)] = SEP THEN a \o b
    ELSE a \o <<SEP>> \o b

\* posixpath.normpath: the components that remain
NormComps(comps, initial) ==
    LET RECURSIVE go(_, _)
        go(i, new) ==
            IF i > Len(comps) THEN new
            ELSE IF comps[i] = <<>> \/ comps[i] = <<".">> THEN go(i + 1, new)
            ELSE IF \/ comps[i] # <<".", ".">>
                    \/ (initial = 0 /\ new = <<>>)
                    \/ (new # <<>> /\ new[Len(new)] = <<".", ".">>)
                 THEN go(i + 1, Append(new, comps[i]))
            ELSE IF new # <<>> THEN go(i + 1, SubSeq(new, 1, Len(new) - 1))
            ELSE go(i + 1, new)
    IN go(1, <<>>)

\* posixpath.normpath: the number of leading slashes kept
InitialSlashes(path) ==
    IF ~StartsWith(path, <<SEP>>) THEN 0
    ELSE IF StartsWith(path, <<SEP, SEP>>) /\ ~StartsWith(path, <<SEP, SEP, SEP>>) THEN 2
    ELSE 1

OrDot(path) == IF path = <<>> THEN <<".">> ELSE path

\* posixpath.normpath
normpath(path) ==
    OrDot([i \in 1..InitialSlashes(path) |-> SEP]
          \o JoinComps(NormComps(Split(path), InitialSlashes(path))))

\* The non-empty components of a path.
Comps(path) == SelectSeq(Split(path), LAMBDA c: c # <<>>)

\* posixpath.relpath on the component lists of abspath(path), abspath(start)
RelList(path_list, start_list) ==
    LET RECURSIVE common(_)
        common(i) ==
            IF i < Len(start_list) /\ i < Len(path_list) /\ start_list[i + 1] = path_list[i + 1]
            THEN common(i + 1) ELSE i
    IN [k \in 1..(Len(start_list) - common(0)) |-> <<".", ".">>]
       \o SubSeq(path_list, common(0) + 1, Len(path_list))

\* posixpath.relpath(path, start), both absolute
relpath(path, start) ==
    OrDot(JoinComps(RelList(Comps(normpath(path)), Comps(normpath(start)))))

\* os.path.abspath(WS)
ws_abs == normpath(WS)

\* The check of server.py:402 without "+ os.sep": a bare prefix test.
InsideWorkspacePrefix(abs_path) == StartsWith(abs_path, ws_abs)

\* normalize_path, the check of server.py:402
InsideWorkspace(abs_path) ==
    StartsWith(abs_path, ws_abs \o <<SEP>>) \/ abs_path = ws_abs

\* normalize_path, server.py:393-398: clean_path to abs_path
AbsOf(clean_path) ==
    normpath(IF isabs(clean_path) THEN clean_path ELSE join(WS, clean_path))

\* normalize_path, server.py:402-406: <<>> when it raises ValueError, else
\* <<the relative POSIX path it returns>>
FromAbs(abs_path) ==
    IF ~InsideWorkspace(abs_path) THEN <<>>
    ELSE <<to_posix_path(relpath(abs_path, WS))>>

\* normalize_path (server.py:384-406)
normalize_path(path) == FromAbs(AbsOf(to_posix_path(path)))

\* normalize_path on each of the model's paths, computed once.
Normalized == [p \in InputPaths |-> normalize_path(p)]

\* The normalized paths the model's inputs can name.
Keys == {Normalized[p][1] : p \in {q \in InputPaths : Normalized[q] # <<>>}}

\* str(ValueError(f"Path outside workspace: {path}"))
PathOutsideError(path) == <<"Path outside workspace", ": ">> \o path

\* ------------------------------------------------------------------ state
VARIABLES
    now,        \* the wall clock, datetime.now()
    resdir,     \* <WS>/.reservations: file name -> file content
    held,       \* S.reserved_files of each agent's process
    last,       \* the last tool call and the reply it returned
    lease,      \* history: per path, the latest grant not yet given up by its holder
    proc,       \* each process's position inside tool_reserve
    mail,       \* the message files of <WS>/.mail and of the team's mail directory
    cursor,     \* the .read_<AGENT> file of each mail directory (0 when absent)
    floor,      \* history: per reader and directory, the time of its latest non-empty recv
    ws,         \* WS of each agent's process
    team,       \* TEAM of each agent's process
    S,          \* the session State of each agent's process
    store,      \* the issues of the workspace's issue store, in bd's order
    registry,   \* <WS>/.beads-village/agents.json: agent id -> AgentInfo
    agents      \* the team registry directories: <AGENT>.json -> file content

vars == <<now, resdir, held, last, lease, proc, mail, cursor,
          floor, ws, team, S, store, registry, agents>>

mailvars == <<mail, cursor>>

\* What the reservation engine never touches.
workvars == <<floor, ws, team, S, store, registry, agents>>

\* hashlib.sha1(path).hexdigest()[:12]: injective on the model's paths.
path_hash(path) == <<"sha1:">> \o path

\* f"{path_hash(path)}.json" in reservation_dir()
ResFile(path) == [stem |-> path_hash(path), ext |-> "json"]

\* mkstemp with suffix ".json": the temporary file is named like a record.
TmpFileJson(a) == [stem |-> <<"tmp", a>>, ext |-> "json"]

\* tempfile.mkstemp(dir=reservation_dir(), suffix=".tmp"): a fresh name; a
\* process has at most one at a time.
TmpFile(a) == [stem |-> <<"tmp", a>>, ext |-> "tmp"]

\* fname.endswith(".json")
EndsWithJson(fname) == fname.ext = "json"

\* json.dump(reservation, f) completed; a file cut short does not parse.
Full(rec) == [full |-> TRUE, rec |-> rec]
Partial(rec) == [full |-> FALSE, rec |-> rec]

Put(dir, fname, content) ==
    [n \in DOMAIN dir \cup {fname} |-> IF n = fname THEN content ELSE dir[n]]

Remove(dir, fname) == [n \in DOMAIN dir \ {fname} |-> dir[n]]

\* os.path.exists, and json.load succeeds with the keys there.
Parses(dir, fname) == fname \in DOMAIN dir /\ dir[fname].full

\* os.listdir(d), list(a_set): one arbitrary, fixed order
RECURSIVE ListDir(_)
ListDir(names) ==
    IF names = {} THEN <<>>
    ELSE LET n == CHOOSE n \in names : TRUE
         IN <<n>> \o ListDir(names \ {n})

\* The reservation dict of tool_reserve (server.py:1302-1308).
Reservation(a, normalized, t, ttl) ==
    [path |-> normalized, agent |-> a, reason |-> "editing",
     created |-> t, expires |-> t + ttl]

\* try_atomic_reserve, the read-check (server.py:421-429): the file parses to
\* a record that has not expired at t and names another agent.
ForeignLive(dir, a, path, t) ==
    /\ Parses(dir, ResFile(path))
    /\ dir[ResFile(path)].rec.expires > t
    /\ dir[ResFile(path)].rec.agent # a

\* The conflict entry tool_reserve builds from the existing record.
ConflictEntry(normalized, existing) ==
    [path |-> normalized, holder |-> existing.agent,
     reason |-> existing.reason, expires |-> existing.expires]

\* The error entry of a failed try_atomic_reserve (server.py:1323).
FailedEntry(normalized) == [path |-> normalized, error |-> <<"failed to reserve">>]

\* One iteration of tool_reserve's loop (server.py:1295-1323) on
\* st = [dir, held, granted, conflicts, errors]; norm = normalize_path(path);
\* oserror: mkstemp, the write or os.replace raises OSError for this path,
\* and the finally clause unlinks the temporary file.
ReserveOne(st, a, path, norm, ttl, t, oserror) ==
    IF norm = <<>> THEN
        [st EXCEPT !.errors = Append(@, [path |-> path, error |-> PathOutsideError(path)])]
    ELSE IF ForeignLive(st.dir, a, norm[1], t) THEN
        [st EXCEPT !.conflicts = Append(@, ConflictEntry(norm[1], st.dir[ResFile(norm[1])].rec))]
    ELSE IF oserror THEN
        [st EXCEPT !.errors = Append(@, FailedEntry(norm[1]))]
    ELSE
        [st EXCEPT !.dir = Put(@, ResFile(norm[1]), Full(Reservation(a, norm[1], t, ttl))),
                   !.granted = Append(@, norm[1]),
                   !.held = @ \cup {norm[1]}]

\* tool_reserve's loop giving up at the first path that ends in errors.
ReserveLoopAbort(st, a, paths, ttl, t, fail) ==
    LET after[k \in 0..Len(paths)] ==
            IF k = 0 THEN st
            ELSE IF after[k - 1].errors # <<>> THEN after[k - 1]
            ELSE ReserveOne(after[k - 1], a, paths[k], Normalized[paths[k]],
                            ttl, t, k \in fail)
    IN after[Len(paths)]

\* tool_reserve's loop over paths: the state after all of them.
ReserveLoop(st, a, paths, ttl, t, fail) ==
    LET after[k \in 0..Len(paths)] ==
            IF k = 0 THEN st
            ELSE ReserveOne(after[k - 1], a, paths[k], Normalized[paths[k]],
                            ttl, t, k \in fail)
    IN after[Len(paths)]

\* The state tool_reserve starts its loop from.
ReserveStart(a) ==
    [dir |-> resdir, held |-> held[a], granted |-> <<>>,
     conflicts |-> <<>>, errors |-> <<>>]

\* tool_reserve's reply (server.py:1325-1333): "errors" only when there are
\* some, "expires" None (<<>>) when nothing was granted.
ReserveReply(granted, conflicts, errors, expires) ==
    IF errors # <<>>
    THEN [granted |-> granted, conflicts |-> conflicts,
          expires |-> IF granted # <<>> THEN <<expires>> ELSE <<>>,
          errors |-> errors]
    ELSE [granted |-> granted, conflicts |-> conflicts,
          expires |-> IF granted # <<>> THEN <<expires>> ELSE <<>>]

\* result.get("errors", [])
ErrorsOf(res) == IF "errors" \in DOMAIN res THEN res.errors ELSE <<>>

\* tool_reserve (server.py:1272-1333), run to completion at time now.
ToolReserve(a, paths, ttl, fail) ==
    /\ paths # <<>>
    /\ LET st == ReserveLoop(ReserveStart(a), a, paths, ttl, now, fail)
       IN /\ resdir' = st.dir
          /\ held' = [held EXCEPT ![a] = st.held]
          /\ last' = [op |-> "reserve", agent |-> a, paths |-> paths, fail |-> fail,
                      res |-> ReserveReply(st.granted, st.conflicts, st.errors, now + ttl)]
    /\ UNCHANGED <<now, proc, mailvars, workvars>>

\* tool_reserve with no paths (server.py:1283-1284)
ToolReserveNoPaths(a) ==
    /\ last' = [op |-> "reserve", agent |-> a, paths |-> <<>>,
                res |-> [error |-> <<"paths required">>]]
    /\ UNCHANGED <<now, resdir, held, proc, mailvars, workvars>>

\* list(S.reserved_files)
HeldList(a) == ListDir(held[a])

\* tool_release's key for a path (server.py:1349-1352): the raw path when
\* normalize_path raises.
ReleaseKeyOf(path, norm) == IF norm = <<>> THEN path ELSE norm[1]

ReleaseKey(path) == ReleaseKeyOf(path, Normalized[path])

\* tool_release without the holder test: any record that parses is removed.
MineAnyHolder(dir, a, normalized) == Parses(dir, ResFile(normalized))

\* tool_release's test (server.py:1355-1359): the file parses and names a.
Mine(dir, a, normalized) ==
    Parses(dir, ResFile(normalized)) /\ dir[ResFile(normalized)].rec.agent = a

\* One iteration of tool_release's loop (server.py:1348-1365) on
\* st = [dir, held, released]; normalized = ReleaseKey(path).
ReleaseOne(st, a, path, normalized) ==
    IF Mine(st.dir, a, normalized)
    THEN [dir |-> Remove(st.dir, ResFile(normalized)),
          held |-> st.held \ {path, normalized},
          released |-> Append(st.released, normalized)]
    ELSE [st EXCEPT !.held = @ \ {path, normalized}]

\* tool_release's loop over paths: the state after all of them.
ReleaseLoop(st, a, paths) ==
    LET after[k \in 0..Len(paths)] ==
            IF k = 0 THEN st
            ELSE ReleaseOne(after[k - 1], a, paths[k], ReleaseKey(paths[k]))
    IN after[Len(paths)]

\* tool_release (server.py:1336-1367); paths = <<>>: every held path.
ToolRelease(a, paths) ==
    /\ LET st == ReleaseLoop([dir |-> resdir, held |-> held[a], released |-> <<>>],
                             a, IF paths = <<>> THEN HeldList(a) ELSE paths)
       IN /\ resdir' = st.dir
          /\ held' = [held EXCEPT ![a] = st.held]
          /\ last' = [op |-> "release", agent |-> a,
                      paths |-> IF paths = <<>> THEN HeldList(a) ELSE paths,
                      res |-> [released |-> st.released]]
    /\ UNCHANGED <<now, proc, mailvars, workvars>>

\* cleanup_expired_reservations (server.py:661-683): the files it removes.
Expired(dir, t) ==
    {f \in DOMAIN dir : EndsWithJson(f) /\ dir[f].full /\ dir[f].rec.expires < t}

Sweep(dir, t) == [f \in DOMAIN dir \ Expired(dir, t) |-> dir[f]]

\* get_active_reservations (server.py:686-707), after its sweep: the files
\* whose records it returns, in directory order.
ActiveFiles(dir, t) ==
    SelectSeq(ListDir(DOMAIN dir),
              LAMBDA f: EndsWithJson(f) /\ dir[f].full /\ dir[f].rec.expires > t)

get_active_reservations(dir, t) ==
    LET fs == ActiveFiles(Sweep(dir, t), t)
    IN [i \in 1..Len(fs) |-> dir[fs[i]].rec]

\* tool_reservations (server.py:1370-1381)
ToolReservations(a) ==
    /\ resdir' = Sweep(resdir, now)
    /\ LET active == get_active_reservations(resdir, now)
       IN last' = [op |-> "reservations", agent |-> a, paths |-> <<>>,
                   res |-> [items |-> [i \in 1..Len(active) |->
                               [path |-> active[i].path, agent |-> active[i].agent,
                                reason |-> active[i].reason, expires |-> active[i].expires]]]]
    /\ UNCHANGED <<now, held, proc, mailvars, workvars>>

\* tool_status (server.py:1470-1502): the reservation part of its reply.
ToolStatus(a) ==
    /\ resdir' = Sweep(resdir, now)
    /\ LET active == get_active_reservations(resdir, now)
       IN last' = [op |-> "status", agent |-> a, paths |-> <<>>,
                   res |-> [reserved |-> Cardinality(held[a]),
                            local_agents |-> Cardinality({active[i].agent : i \in 1..Len(active)})]]
    /\ UNCHANGED <<now, held, proc, mailvars, workvars>>

\* tool_done (server.py:949-959): the files it removes, one per held path.
DoneRemoves(a) == {ResFile(p) : p \in held[a]}

\* tool_done (server.py:931-979), its effect on the reservations; closed:
\* there is an issue id and the issue store closed it.
ToolDone(a, closed) ==
    /\ IF closed
       THEN /\ resdir' = [f \in DOMAIN resdir \ DoneRemoves(a) |-> resdir[f]]
            /\ held' = [held EXCEPT ![a] = {}]
            /\ last' = [op |-> "done", agent |-> a, paths |-> HeldList(a),
                        res |-> [ok |-> 1]]
       ELSE /\ last' = [op |-> "done", agent |-> a, paths |-> <<>>,
                        res |-> [error |-> <<"close failed">>]]
            /\ UNCHANGED <<resdir, held>>
    /\ UNCHANGED <<now, proc, mailvars, workvars>>

\* tool_init (server.py:733-853), its effect on the reservations: it sweeps
\* (server.py:791) unless it returned an error before.
ToolInit(a, ok) ==
    /\ IF ok
       THEN /\ resdir' = Sweep(resdir, now)
            /\ last' = [op |-> "init", agent |-> a, paths |-> <<>>, res |-> [ok |-> 1]]
       ELSE /\ last' = [op |-> "init", agent |-> a, paths |-> <<>>,
                        res |-> [error |-> <<"workspace not found">>]]
            /\ UNCHANGED resdir
    /\ UNCHANGED <<now, held, proc, mailvars, workvars>>

\* The wall clock advances.
Tick ==
    /\ now < MaxTime
    /\ now' = now + 1
    /\ UNCHANGED <<resdir, held, last, lease, proc, mailvars, workvars>>

\* ------------------------------------------- the history of grants (lease)
NoLease == [k \in Keys |-> <<>>]

\* After a reserve: each granted path's lease is the caller's.
\* After a release or a done by the holder that names the path: no lease.
LeaseNext ==
    lease' = [k \in Keys |->
        IF last'.op = "reserve" /\ "granted" \in DOMAIN last'.res
           /\ \E i \in 1..Len(last'.res.granted) : last'.res.granted[i] = k
        THEN <<[agent |-> last'.agent, expires |-> last'.res.expires[1]]>>
        ELSE IF /\ last'.op \in {"release", "done"}
                /\ lease[k] # <<>> /\ lease[k][1].agent = last'.agent
                /\ "error" \notin DOMAIN last'.res
                /\ \E i \in 1..Len(last'.paths) :
                      k = ReleaseKey(last'.paths[i])
        THEN <<>>
        ELSE lease[k]]

\* --------------------------------------------------- the sequential engine
Idle == [a \in Agents |-> [pc |-> "idle"]]

\* The workspaces and teams of the model.  A mail directory is named after
\* its owner: <W>/.mail after the workspace W, <BASE>/<T>/mail after the team T.
Workspaces == {"W1", "W2"}

Teams == {"T1", "T2"}

MailDirs == Workspaces \cup Teams

\* None of Python.
None == "None"

\* State() (server.py:89-101)
NewState ==
    [role |-> None, is_leader |-> FALSE, issue |-> None, current_task |-> None,
     done |-> 0]

\* The issues of the store when the agents start: 1 untagged, 2 tagged fe,
\* 3 tagged be, all open, in the order bd lists them.
Backlog ==
    << [id |-> "1", status |-> "open", tags |-> <<>>],
       [id |-> "2", status |-> "open", tags |-> <<"fe">>],
       [id |-> "3", status |-> "open", tags |-> <<"be">>],
       [id |-> "4", status |-> "open", tags |-> <<"FE">>] >>

\* No agent has registered in any team.
NoAgents == [tm \in Teams |-> <<>>]

\* Processes just started in workspace W1 and team T1, no init call made yet.
Started ==
    /\ floor = [d \in MailDirs |-> [a \in Agents |-> 0]]
    /\ ws = [a \in Agents |-> "W1"]
    /\ team = [a \in Agents |-> "T1"]
    /\ S = [a \in Agents |-> NewState]
    /\ store = Backlog
    /\ registry = [w \in Workspaces |-> <<>>]
    /\ agents = NoAgents

\* The batches of at most n raw paths.
Batches(n) == UNION {[1..k -> InputPaths] : k \in 1..n}

\* The single paths of the sequential engine's calls: two files, a second
\* spelling of the first, and one path outside the workspace.
SinglePaths == {<<P_x>>, <<P_y>>, <<P_alias>>, <<P_escape>>}

NoCall == [op |-> "none", agent |-> "none", paths |-> <<>>, res |-> [ok |-> 1]]

Init ==
    /\ now = 1
    /\ resdir = <<>>
    /\ held = [a \in Agents |-> {}]
    /\ last = NoCall
    /\ lease = NoLease
    /\ proc = Idle
    /\ mail = [d \in MailDirs |-> {}]
    /\ cursor = [d \in MailDirs |-> [a \in Agents |-> 0]]
    /\ Started

\* Complete tool calls, one after the other; reserve and release of one
\* path, on a filesystem that raises no OSError.
Reserve ==
    \E a \in Agents, paths \in SinglePaths, ttl \in TTLs :
        ToolReserve(a, paths, ttl, {}) /\ LeaseNext

ReserveNoPaths == \E a \in Agents : ToolReserveNoPaths(a) /\ LeaseNext

Release ==
    \E a \in Agents, paths \in SinglePaths \cup {<<>>} : ToolRelease(a, paths) /\ LeaseNext

Reservations == \E a \in Agents : ToolReservations(a) /\ LeaseNext

Status == \E a \in Agents : ToolStatus(a) /\ LeaseNext

Done == \E a \in Agents, closed \in BOOLEAN : ToolDone(a, closed) /\ LeaseNext

Join == \E a \in Agents, ok \in BOOLEAN : ToolInit(a, ok) /\ LeaseNext

Next ==
    \/ Reserve
    \/ ReserveNoPaths
    \/ Release
    \/ Reservations
    \/ Status
    \/ Done
    \/ Join
    \/ Tick

Spec == Init /\ [][Next]_vars

\* ------------------------------------------------ properties of the engine
\* This step is a complete call of the tool op; last' is its call and reply.
Called(op) == now' = now /\ last'.op = op

\* The elements of a sequence.
Range(seq) == {seq[i] : i \in 1..Len(seq)}

\* The record stored for path k, when its file is there and parses.
HasRecord(dir, k) == Parses(dir, ResFile(k))

RecordOf(dir, k) == dir[ResFile(k)].rec

\* The spec's TTL rule: a record is live while expires > now, dead from
\* expires <= now on.
Live(dir, k, t) == HasRecord(dir, k) /\ RecordOf(dir, k).expires > t

Dead(dir, k, t) == HasRecord(dir, k) /\ RecordOf(dir, k).expires <= t

\* C1: reservation mutual exclusion over complete calls.  While A's latest
\* grant of p has not reached its expiry and A has not given p up (release or
\* done), a reserve of p by another agent B returns a conflict entry for p
\* naming A, grants nothing for p and leaves the record as it was.
C1_MutualExclusion ==
    [][\A k \in Keys :
          ( /\ Called("reserve")
            /\ last'.paths # <<>>
            /\ ReleaseKey(last'.paths[1]) = k
            /\ lease[k] # <<>>
            /\ lease[k][1].agent # last'.agent
            /\ now < lease[k][1].expires )
          => /\ k \notin Range(last'.res.granted)
             /\ \E c \in Range(last'.res.conflicts) :
                   c.path = k /\ c.holder = lease[k][1].agent
             /\ HasRecord(resdir, k)
             /\ HasRecord(resdir', k)
             /\ RecordOf(resdir', k) = RecordOf(resdir, k)
      ]_vars

\* C4: reservation TTL.  From expires <= now on a record counts as absent
\* for every operation: a reserve of its path (that meets no filesystem
\* error) is granted without a conflict, reservations() does not list it,
\* status does not count it, and a release of it reports nothing released.
C4_ExpiredIsAbsent ==
    [][\A k \in Keys : Dead(resdir, k, now) =>
          /\ ( /\ Called("reserve")
               /\ last'.paths # <<>>
               /\ ReleaseKey(last'.paths[1]) = k
               /\ last'.fail = {} )
             => /\ k \in Range(last'.res.granted)
                /\ last'.res.conflicts = <<>>
          /\ Called("reservations")
             => \A it \in Range(last'.res.items) : it.path # k
          /\ Called("status")
             => last'.res.reserved
                  <= Cardinality({h \in held[last'.agent] : ~Dead(resdir, h, now)})
          /\ Called("release")
             => k \notin Range(last'.res.released)
      ]_vars

\* C5: release authority.  A release by B removes a record only if the
\* record names B; a live record of another agent stays as it is and its
\* path is not reported released; no file is rewritten; and the call replies
\* with its released list, never with an error, whether or not the record is
\* there.
C5_ReleaseAuthority ==
    [][Called("release") =>
          /\ \A f \in DOMAIN resdir :
                f \notin DOMAIN resdir' => (resdir[f].full /\ resdir[f].rec.agent = last'.agent)
          /\ \A f \in DOMAIN resdir' : f \in DOMAIN resdir /\ resdir'[f] = resdir[f]
          /\ \A k \in Keys :
                (Live(resdir, k, now) /\ RecordOf(resdir, k).agent # last'.agent)
                => /\ HasRecord(resdir', k)
                   /\ RecordOf(resdir', k) = RecordOf(resdir, k)
                   /\ k \notin Range(last'.res.released)
          /\ DOMAIN last'.res = {"released"}
          /\ \A k \in Range(last'.res.released) :
                HasRecord(resdir, k) /\ ~HasRecord(resdir', k)
      ]_vars

\* A release by an agent of a path whose live record names another agent has
\* returned, with nothing released and the record still there.
C5_Witness ==
    /\ last.op = "release"
    /\ last.paths # <<>>
    /\ last.res.released = <<>>
    /\ Live(resdir, ReleaseKey(last.paths[1]), now)
    /\ RecordOf(resdir, ReleaseKey(last.paths[1])).agent # last.agent

\* The items reservations() must return for a directory at time t.
LiveItems(dir, t) ==
    {[path |-> RecordOf(dir, k).path, agent |-> RecordOf(dir, k).agent,
      reason |-> RecordOf(dir, k).reason, expires |-> RecordOf(dir, k).expires]
        : k \in {q \in Keys : Live(dir, q, t)}}

\* C9: reservations() sweeps and returns exactly the live records: each
\* record with expires > now once, with its path, holder, reason and expiry,
\* none with expires <= now, and afterwards no record with expires <= now is
\* left in the directory.
C9_ReservationsExact ==
    [][Called("reservations") =>
          /\ Range(last'.res.items) = LiveItems(resdir, now)
          /\ Len(last'.res.items) = Cardinality(LiveItems(resdir, now))
          /\ \A it \in Range(last'.res.items) : it.expires > now
          /\ \A k \in Keys : ~Dead(resdir', k, now)
      ]_vars

\* ------------------------------------------------------- batches of paths
\* A reservation directory the engine can have built by time now: each path
\* free or reserved at time 1 by one agent, who holds it in its session.
DirOf(owner, ttl) ==
    [f \in {ResFile(k) : k \in {q \in Keys : owner[q] # "none"}} |->
        LET k == CHOOSE q \in Keys : ResFile(q) = f
        IN Full(Reservation(owner[k], k, 1, ttl[k]))]

InitBatch ==
    /\ now \in 1..MaxTime
    /\ \E owner \in [Keys -> Agents \cup {"none"}], ttl \in [Keys -> TTLs] :
          /\ resdir = DirOf(owner, ttl)
          /\ held = [a \in Agents |-> {k \in Keys : owner[k] = a}]
    /\ last = NoCall
    /\ lease = NoLease
    /\ proc = Idle
    /\ mail = [d \in MailDirs |-> {}]
    /\ cursor = [d \in MailDirs |-> [a \in Agents |-> 0]]
    /\ Started

\* The sets of positions of a batch at which the filesystem raises OSError:
\* none, or one of them.
Faults(paths) == {{}} \cup {{i} : i \in 1..Len(paths)}

\* One reserve call of a batch of paths.
BatchReserve ==
    /\ last = NoCall
    /\ \E a \in Agents, paths \in Batches(MaxBatch), ttl \in TTLs :
          \E fail \in Faults(paths) :
              ToolReserve(a, paths, ttl, fail) /\ UNCHANGED lease

NextBatch == BatchReserve

SpecBatch == InitBatch /\ [][NextBatch]_vars

\* What the claims call a path's normalized absolute form: the components
\* of the input, separators made POSIX, resolved against the workspace root.
Resolved(raw) ==
    LET comps == Split(to_posix_path(raw))
        walk[i \in 0..Len(comps)] ==
            IF i = 0 THEN (IF isabs(to_posix_path(raw)) THEN <<>> ELSE Comps(WS))
            ELSE IF comps[i] = <<>> \/ comps[i] = <<".">> THEN walk[i - 1]
            ELSE IF comps[i] = <<".", ".">>
                 THEN SubSeq(walk[i - 1], 1, Len(walk[i - 1]) - 1)
            ELSE Append(walk[i - 1], comps[i])
    IN walk[Len(comps)]

\* Resolved on each of the model's paths, computed once.
Resolution == [p \in InputPaths |-> Resolved(p)]

RootComps == Comps(WS)

\* The inputs whose resolved form is not the workspace root nor below it.
Escaping == {p \in InputPaths : ~StartsWith(Resolution[p], RootComps)}

Escapes(raw) == raw \in Escaping

\* The workspace-relative spelling of each input that does not escape.
Relative ==
    [p \in InputPaths \ Escaping |->
        JoinComps(SubSeq(Resolution[p], Len(RootComps) + 1, Len(Resolution[p])))]

RelOf(raw) == Relative[raw]

\* p is a workspace-relative POSIX path that stays inside the workspace.
InsideRel(p) ==
    /\ p # <<>>
    /\ \A i \in 1..Len(p) : p[i] # "\\"
    /\ \A c \in Range(Split(p)) : c \notin {<<>>, <<".">>, <<".", ".">>}

\* The outcome the claims give position i of a batch: a path that escapes is
\* an error, a path with a live record of another agent is a conflict, a
\* filesystem error is an error, anything else is granted.
Outcome(a, paths, fail, i) ==
    IF Escapes(paths[i]) THEN "errors"
    ELSE IF Live(resdir, RelOf(paths[i]), now)
            /\ RecordOf(resdir, RelOf(paths[i])).agent # a THEN "conflicts"
    ELSE IF i \in fail THEN "errors"
    ELSE "granted"

\* The positions of a batch with the given outcome, in order.
Positions(a, paths, fail, outcome) ==
    SelectSeq([i \in 1..Len(paths) |-> i],
              LAMBDA i : Outcome(a, paths, fail, i) = outcome)

Confined(exact) ==
    (Called("reserve") /\ last'.paths # <<>>) =>
        LET a == last'.agent
            paths == last'.paths
            inside == {i \in 1..Len(paths) : ~Escapes(paths[i])}
        IN /\ \A i \in 1..Len(paths) : Escapes(paths[i]) =>
                 /\ \E e \in Range(ErrorsOf(last'.res)) :
                       /\ e.path = paths[i]
                       /\ IF exact THEN e.error = <<"Path outside workspace">>
                          ELSE StartsWith(e.error, <<"Path outside workspace">>)
                 /\ paths[i] \notin Range(last'.res.granted)
           /\ inside = {} => (last'.res.granted = <<>> /\ resdir' = resdir /\ held' = held)
           /\ \A f \in DOMAIN resdir' :
                 (f \notin DOMAIN resdir \/ resdir'[f] # resdir[f])
                 => \E i \in inside : f = ResFile(RelOf(paths[i]))
           /\ held'[a] \ held[a] \subseteq {RelOf(paths[i]) : i \in inside}
           /\ \A b \in Agents \ {a} : held'[b] = held[b]
           /\ \A p \in Range(last'.res.granted) : InsideRel(p)
           /\ \A c \in Range(last'.res.conflicts) : InsideRel(c.path)
           /\ \A f \in DOMAIN resdir' : InsideRel(resdir'[f].rec.path)

\* C8 as stated: the rejected input is reported with the error text "Path
\* outside workspace".
C8_PathConfinementExact == [][Confined(TRUE)]_vars

\* C8, amended: path confinement.  An input whose resolved form leaves the
\* workspace root is reported in errors under its own spelling with a text
\* that begins "Path outside workspace" (the code appends ": " and the
\* input); it is not granted, no record is created or changed for it, the
\* held sets change only by the granted paths; and every path in granted, in
\* conflicts or in a stored record is a relative path inside the workspace.
C8_PathConfinement == [][Confined(FALSE)]_vars

\* A reserve of a path outside the workspace and of a path inside it has
\* returned: the first in errors, the second granted.
C8_Witness ==
    /\ last.op = "reserve"
    /\ Len(last.paths) = 2
    /\ Escapes(last.paths[1])
    /\ ~Escapes(last.paths[2])
    /\ Len(ErrorsOf(last.res)) = 1
    /\ ErrorsOf(last.res)[1].path = last.paths[1]
    /\ ErrorsOf(last.res)[1].error = PathOutsideError(last.paths[1])
    /\ last.res.granted = <<RelOf(last.paths[2])>>

\* ---------------------------------------- reserve calls, step by step
\* Each agent is one process. proc[a].pc is its place in tool_reserve for one
\* path: idle, check (try_atomic_reserve entered), mkstemp, dump, replace,
\* granted (try_atomic_reserve returned True), crashed.
ConcPaths == {P_x, P_escape}

\* tool_reserve (server.py:1287-1310) up to the call of try_atomic_reserve;
\* norm = normalize_path(path).
BeginWith(a, path, norm, ttl) ==
    /\ proc[a].pc = "idle"
    /\ IF norm = <<>>
       THEN /\ last' = [op |-> "reserve", agent |-> a, paths |-> <<path>>, fail |-> {},
                        res |-> ReserveReply(<<>>, <<>>,
                                   <<[path |-> path, error |-> PathOutsideError(path)]>>,
                                   now + ttl)]
            /\ UNCHANGED proc
       ELSE /\ proc' = [proc EXCEPT ![a] =
                          [pc |-> "check", path |-> path,
                           rec |-> Reservation(a, norm[1], now, ttl)]]
            /\ UNCHANGED last
    /\ UNCHANGED <<now, resdir, held, lease, mailvars, workvars>>

Begin == \E a \in Agents, path \in ConcPaths, ttl \in TTLs :
            BeginWith(a, path, Normalized[path], ttl)

\* The reply of the one-path call process a is in.
ConcReply(a, granted, conflicts, errors) ==
    [op |-> "reserve", agent |-> a, paths |-> <<proc[a].path>>, fail |-> {},
     res |-> ReserveReply(granted, conflicts, errors, proc[a].rec.expires)]

\* try_atomic_reserve, the read-check (server.py:419-429)
Check(a) ==
    /\ proc[a].pc = "check"
    /\ IF ForeignLive(resdir, a, proc[a].rec.path, now)
       THEN /\ last' = ConcReply(a, <<>>,
                          <<ConflictEntry(proc[a].rec.path,
                                          resdir[ResFile(proc[a].rec.path)].rec)>>, <<>>)
            /\ proc' = [proc EXCEPT ![a] = [pc |-> "idle"]]
       ELSE /\ proc' = [proc EXCEPT ![a].pc = "mkstemp"]
            /\ UNCHANGED last
    /\ UNCHANGED <<now, resdir, held, lease, mailvars, workvars>>

\* tempfile.mkstemp (server.py:434): an empty file under a fresh name
MkStemp(a) ==
    /\ proc[a].pc = "mkstemp"
    /\ resdir' = Put(resdir, TmpFile(a), Partial(proc[a].rec))
    /\ proc' = [proc EXCEPT ![a].pc = "dump"]
    /\ UNCHANGED <<now, held, last, lease, mailvars, workvars>>

\* json.dump into the temporary file, and its close (server.py:435-437)
Dump(a) ==
    /\ proc[a].pc = "dump"
    /\ resdir' = Put(resdir, TmpFile(a), Full(proc[a].rec))
    /\ proc' = [proc EXCEPT ![a].pc = "replace"]
    /\ UNCHANGED <<now, held, last, lease, mailvars, workvars>>

\* os.replace(tmp_path, res_file) (server.py:439)
Replace(a) ==
    /\ proc[a].pc = "replace"
    /\ TmpFile(a) \in DOMAIN resdir
    /\ resdir' = Put(Remove(resdir, TmpFile(a)), ResFile(proc[a].rec.path),
                     resdir[TmpFile(a)])
    /\ proc' = [proc EXCEPT ![a].pc = "granted"]
    /\ UNCHANGED <<now, held, last, lease, mailvars, workvars>>

\* try_atomic_reserve returned True: tool_reserve grants (server.py:1312-1314)
\* and replies.
Granted(a) ==
    /\ proc[a].pc = "granted"
    /\ held' = [held EXCEPT ![a] = @ \cup {proc[a].rec.path}]
    /\ last' = ConcReply(a, <<proc[a].rec.path>>, <<>>, <<>>)
    /\ proc' = [proc EXCEPT ![a] = [pc |-> "idle"]]
    /\ UNCHANGED <<now, resdir, lease, mailvars, workvars>>

\* mkstemp, the write or os.replace raises OSError (server.py:442-454): the
\* finally clause unlinks the temporary file, tool_reserve reports an error.
RaiseOSError(a) ==
    /\ proc[a].pc \in {"mkstemp", "dump", "replace"}
    /\ resdir' = Remove(resdir, TmpFile(a))
    /\ last' = ConcReply(a, <<>>, <<>>, <<FailedEntry(proc[a].rec.path)>>)
    /\ proc' = [proc EXCEPT ![a] = [pc |-> "idle"]]
    /\ UNCHANGED <<now, held, lease, mailvars, workvars>>

\* The process dies where it is: nothing of it runs again, no finally clause.
Crash(a) ==
    /\ proc[a].pc \notin {"idle", "crashed"}
    /\ proc' = [proc EXCEPT ![a] = [pc |-> "crashed", at |-> proc[a].pc,
                                    rec |-> proc[a].rec]]
    /\ held' = [held EXCEPT ![a] = {}]
    /\ UNCHANGED <<now, resdir, last, lease, mailvars, workvars>>

\* Complete calls of the other tools by a process that is in no call.
ConcRelease ==
    \E a \in Agents, path \in ConcPaths :
        proc[a].pc = "idle" /\ ToolRelease(a, <<path>>) /\ UNCHANGED lease

ConcReservations ==
    \E a \in Agents :
        proc[a].pc = "idle" /\ ToolReservations(a) /\ UNCHANGED lease

NextConc ==
    \/ Begin
    \/ \E a \in Agents : Check(a)
    \/ \E a \in Agents : MkStemp(a)
    \/ \E a \in Agents : Dump(a)
    \/ \E a \in Agents : Replace(a)
    \/ \E a \in Agents : Granted(a)
    \/ \E a \in Agents : RaiseOSError(a)
    \/ \E a \in Agents : Crash(a)
    \/ ConcRelease
    \/ ConcReservations
    \/ Tick

SpecConc == Init /\ [][NextConc]_vars

\* C2: under every interleaving of the steps of reserve calls, the record
\* of a path never goes from a live record of one agent to a record of
\* another, and there is never more than one live record per path.
C2_NoForeignReplace ==
    [][\A k \in Keys :
          /\ (Live(resdir, k, now) /\ HasRecord(resdir', k))
             => RecordOf(resdir', k).agent = RecordOf(resdir, k).agent
          /\ Cardinality({f \in DOMAIN resdir' :
                             /\ EndsWithJson(f) /\ resdir'[f].full
                             /\ resdir'[f].rec.path = k
                             /\ resdir'[f].rec.expires > now'}) <= 1
      ]_vars

\* C3: first committer wins.  When a reserve call returns a path granted to
\* A, the record of the path names A (unless A's grant has run out by then),
\* and no other agent is being granted the same path for an overlapping
\* time.
C3_FirstCommitterWins ==
    [][\A a \in Agents :
          (proc[a].pc = "granted" /\ proc'[a].pc = "idle" /\ proc[a].rec.expires > now)
          => /\ HasRecord(resdir, proc[a].rec.path)
             /\ RecordOf(resdir, proc[a].rec.path).agent = a
             /\ \A b \in Agents \ {a} :
                   ~( /\ proc[b].pc = "granted"
                      /\ proc[b].rec.path = proc[a].rec.path
                      /\ proc[b].rec.expires > now )
      ]_vars

\* The records reserve, release and reservations can see: the *.json files.
VisibleRecords(dir) == [f \in {g \in DOMAIN dir : EndsWithJson(g)} |-> dir[f]]

\* A complete reservation record.
WellFormed(content) ==
    /\ content.full
    /\ DOMAIN content.rec = {"path", "agent", "reason", "created", "expires"}
    /\ content.rec.agent \in Agents
    /\ content.rec.path \in Keys
    /\ content.rec.expires > content.rec.created

\* C6: crash-safe acquisition.  No step of a reserve call before its rename,
\* and no crash at any point, changes a visible record, so a call that dies
\* before the rename leaves the previous record, if any, as it was; and
\* every visible record, at every moment, is complete and well-formed.
C6_CrashSafe ==
    [][/\ \A a \in Agents :
             ( /\ proc'[a] # proc[a]
               /\ proc[a].pc \in {"check", "mkstemp", "dump", "replace"}
               /\ ~(proc[a].pc = "replace" /\ proc'[a].pc = "granted") )
             => VisibleRecords(resdir') = VisibleRecords(resdir)
       /\ \A a \in Agents :
             (proc[a].pc # "crashed" /\ proc'[a].pc = "crashed")
             => VisibleRecords(resdir') = VisibleRecords(resdir)
       /\ \A f \in DOMAIN VisibleRecords(resdir') : WellFormed(resdir'[f])
      ]_vars

\* A process has died between the write and the rename: its complete
\* temporary file is in the directory and its path has no visible record.
C6_Witness ==
    \E a \in Agents :
        /\ proc[a].pc = "crashed"
        /\ proc[a].at = "replace"
        /\ TmpFile(a) \in DOMAIN resdir
        /\ resdir[TmpFile(a)].full
        /\ ~HasRecord(resdir, proc[a].rec.path)
        /\ last.op = "reservations"
        /\ last.agent # a
        /\ last.res.items = <<>>

\* ------------------------------------------------------------ the mailbox
\* A message file is [ts, uniq, msg, full]: its name is
\* f"{ts:.6f}_{uniq}.json", msg is the JSON object written into it, full says
\* that the write has finished.  uuid4 gives each file of one directory and
\* one clock reading a suffix of its own.  The cursor files .read_<AGENT>
\* sort before every message file and are skipped.
MailWindow == 50

Uniques == {0}

Recipients == {"all"} \cup Agents

\* The n arguments the model passes to recv.
Limits == {1, 2}

\* mail_dir() (server.py:359-361) of a's process
mail_dir(a) == ws[a]

\* The mail directory of the environment's default team, whatever TEAM is.
startup_mail_dir(a) == "T1"

\* global_mail_dir() (server.py:338-346) of a's process
global_mail_dir(a) == team[a]

TargetDir(a, global_broadcast) ==
    IF global_broadcast THEN global_mail_dir(a) ELSE mail_dir(a)

AllMail == UNION {mail[d] : d \in MailDirs}

\* The msg dict of send_msg (server.py:474-484), without the fields no
\* reader decides on (b, thread, imp, issue).
Message(a, subj, to, t, w) == [f |-> a, t |-> to, s |-> subj, ts |-> t, ws |-> w]

SameName(f, g) == f.ts = g.ts /\ f.uniq = g.uniq

\* A write that leaves the new file alone in its directory.
PostedAlone(m, d, file) == [m EXCEPT ![d] = {file}]

\* open(p, "w") and the write (server.py:492-493): the file of that name is
\* created, or truncated and rewritten.
Posted(m, d, file) == [m EXCEPT ![d] = {g \in @ : ~SameName(g, file)} \cup {file}]

\* send_msg as a state function: the directories after a message of a
\* process whose WS is w, written into directory d.
SentFrom(m, d, w, a, subj, to, t, unique) ==
    Posted(m, d, [ts |-> t, uniq |-> unique, msg |-> Message(a, subj, to, t, w),
                  full |-> TRUE])

Sent(m, a, subj, to, global_broadcast, t, unique) ==
    SentFrom(m, TargetDir(a, global_broadcast), ws[a], a, subj, to, t, unique)

\* send_msg (server.py:461-495)
send_msg(a, subj, to, global_broadcast, unique) ==
    /\ mail' = Sent(mail, a, subj, to, global_broadcast, now, unique)
    /\ last' = [op |-> "send", agent |-> a,
                res |-> [sent |-> 1, global |-> global_broadcast]]
    /\ UNCHANGED <<now, cursor, resdir, held, lease, proc, workvars>>

\* The subject the model gives a's next message: its number among a's.
NextSubject(a) == Cardinality({f \in AllMail : f.msg.f = a}) + 1

SendMsg ==
    \E a \in Agents, to \in Recipients, global_broadcast \in BOOLEAN, unique \in Uniques :
        /\ Cardinality(AllMail) < MaxMsgs
        /\ \A f \in AllMail : f.msg.f = a => f.ts < now
        /\ \A f \in mail[TargetDir(a, global_broadcast)] : ~(f.ts = now /\ f.uniq = unique)
        /\ send_msg(a, NextSubject(a), to, global_broadcast, unique)

\* The order of two file names in sorted(os.listdir(d)).
NameLeq(f, g) == f.ts < g.ts \/ (f.ts = g.ts /\ f.uniq <= g.uniq)

\* sorted(os.listdir(d)), the message files of it
RECURSIVE SortedFiles(_)
SortedFiles(files) ==
    IF files = {} THEN <<>>
    ELSE LET f == CHOOSE f \in files : \A g \in files : NameLeq(f, g)
         IN <<f>> \o SortedFiles(files \ {f})

\* seq[-n:]
LastN(seq, n) ==
    IF n = 0 THEN seq
    ELSE IF n > 0 THEN SubSeq(seq, IF Len(seq) > n THEN Len(seq) - n + 1 ELSE 1, Len(seq))
    ELSE SubSeq(seq, 1 - n, Len(seq))

\* The message as recv_msgs appends it (server.py:548-551): those of the
\* reader's team directory get the key _global.
Tagged(msg, d, a) ==
    IF d = global_mail_dir(a)
    THEN [f |-> msg.f, t |-> msg.t, s |-> msg.s, ts |-> msg.ts, ws |-> msg.ws,
          global |-> TRUE]
    ELSE msg

\* One directory read without the recipient test.
CollectAny(d, a, unread_only) ==
    LET kept == SelectSeq(LastN(SortedFiles(mail[d]), MailWindow),
                          LAMBDA f : /\ f.full
                                     /\ unread_only => f.ts > cursor[d][a])
    IN [i \in 1..Len(kept) |-> Tagged(kept[i].msg, d, a)]

\* recv_msgs, one directory (server.py:514-555): the messages it appends.
\* A file whose write has not finished does not parse and is passed over.
Collect(d, a, unread_only) ==
    LET kept == SelectSeq(LastN(SortedFiles(mail[d]), MailWindow),
                          LAMBDA f : /\ f.full
                                     /\ f.msg.t \in {"all", a}
                                     /\ unread_only => f.ts > cursor[d][a])
    IN [i \in 1..Len(kept) |-> Tagged(kept[i].msg, d, a)]

\* msgs.sort(key=lambda x: x.get("ts", "")): stable
RECURSIVE SortByTs(_)
SortByTs(msgs) ==
    IF msgs = <<>> THEN <<>>
    ELSE LET rest == SortByTs(Tail(msgs))
             k == Cardinality({i \in 1..Len(rest) : rest[i].ts < Head(msgs).ts})
         IN SubSeq(rest, 1, k) \o <<Head(msgs)>> \o SubSeq(rest, k + 1, Len(rest))

\* The directories recv_msgs goes through (server.py:510-512).
Scope(a, include_global) ==
    IF include_global THEN {mail_dir(a), global_mail_dir(a)} ELSE {mail_dir(a)}

\* The cursor files after recv_msgs (server.py:558-563): a directory's
\* cursor is written when msgs is not empty once the directory is done.
\* local is what the workspace directory gave, msgs the whole list.
CursorAfter(a, include_global, local, msgs) ==
    [d \in MailDirs |->
        IF \/ (d = mail_dir(a) /\ local # <<>>)
           \/ (d = global_mail_dir(a) /\ include_global /\ msgs # <<>>)
        THEN [cursor[d] EXCEPT ![a] = now] ELSE cursor[d]]

\* History: a recv that returned the non-empty list res at time now, for
\* each directory it went through.
FloorAfter(a, include_global, res) ==
    [d \in MailDirs |->
        IF d \in Scope(a, include_global) /\ res # <<>>
        THEN [floor[d] EXCEPT ![a] = now] ELSE floor[d]]

\* recv_msgs (server.py:498-567); local and hub are what the two
\* directories give.
recv_msgs(a, n, unread_only, include_global) ==
    \E local \in {Collect(mail_dir(a), a, unread_only)} :
    \E hub \in {IF include_global
                THEN Collect(global_mail_dir(a), a, unread_only) ELSE <<>>} :
    \E res \in {LastN(SortByTs(local \o hub), n)} :
       /\ cursor' = CursorAfter(a, include_global, local, local \o hub)
       /\ floor' = FloorAfter(a, include_global, res)
       /\ last' = [op |-> "recv", agent |-> a, n |-> n,
                   unread_only |-> unread_only, include_global |-> include_global,
                   res |-> res]
       /\ UNCHANGED <<now, mail, resdir, held, lease, proc, ws, team, S, store, registry, agents>>

RecvMsgs ==
    \E a \in Agents, n \in Limits, unread_only \in BOOLEAN, include_global \in BOOLEAN :
        recv_msgs(a, n, unread_only, include_global)

NextMail ==
    \/ SendMsg
    \/ RecvMsgs
    \/ Tick

SpecMail == Init /\ [][NextMail]_vars

\* The files of directory d that recv's window reaches.
InWindow(d, f) == f \in Range(LastN(SortedFiles(mail[d]), MailWindow))

\* The message of file f of directory d is in a recv result.
Returned(res, d, f, a) == Tagged(f.msg, d, a) \in Range(res)

\* C10: mailbox FIFO per writer.  For messages m1 then m2 of one writer in
\* one directory, both addressed to the reader: a recv result that has both
\* has m1 before m2, and a recv result that has m2 also has m1 when m1 is
\* within the window and still unread (newer than the reader's cursor).
C10_MailboxFifo ==
    [][Called("recv") =>
          \A d \in MailDirs : \A m1 \in mail[d], m2 \in mail[d] :
              ( /\ m1.msg.f = m2.msg.f
                /\ m1.msg.s < m2.msg.s
                /\ m1.msg.t \in {"all", last'.agent}
                /\ m2.msg.t \in {"all", last'.agent} )
              => /\ \A i \in 1..Len(last'.res), j \in 1..Len(last'.res) :
                       (last'.res[i] = Tagged(m1.msg, d, last'.agent)
                        /\ last'.res[j] = Tagged(m2.msg, d, last'.agent))
                       => i < j
                 /\ ( /\ Returned(last'.res, d, m2, last'.agent)
                      /\ InWindow(d, m1)
                      /\ m1.ts > cursor[d][last'.agent] )
                    => Returned(last'.res, d, m1, last'.agent)
      ]_vars

\* ------------------------------------------------ send_msg, step by step
\* proc[a].pc is also a's place in send_msg: stamped (the message is built,
\* the clock read and the file named), opened (the file exists, its write
\* has not finished).  The model's messages go to "all".
PostLimits == {MaxMsgs}

\* The messages published or under way.
InFlight == {a \in Agents : proc[a].pc \in {"stamped", "opened"}}

\* send_msg (server.py:474-490): msg, ts, unique, target_dir and p
Stamp(a, global_broadcast, unique) ==
    /\ proc[a].pc = "idle"
    /\ Cardinality(AllMail) + Cardinality(InFlight) < MaxMsgs
    /\ \A f \in AllMail : f.msg.f = a => f.ts < now
    /\ proc' = [proc EXCEPT ![a] =
                  [pc |-> "stamped", dir |-> TargetDir(a, global_broadcast),
                   global |-> global_broadcast,
                   file |-> [ts |-> now, uniq |-> unique,
                             msg |-> Message(a, NextSubject(a), "all", now, ws[a]),
                             full |-> FALSE]]]
    /\ UNCHANGED <<now, resdir, held, last, lease, mailvars, workvars>>

\* open(p, "w") (server.py:492): the file exists and is empty
Open(a) ==
    /\ proc[a].pc = "stamped"
    /\ mail' = Posted(mail, proc[a].dir, proc[a].file)
    /\ proc' = [proc EXCEPT ![a].pc = "opened"]
    /\ UNCHANGED <<now, resdir, held, last, lease, cursor, workvars>>

\* json.dump and the close of the file, and the return (server.py:493-495)
Write(a) ==
    /\ proc[a].pc = "opened"
    /\ mail' = Posted(mail, proc[a].dir, [proc[a].file EXCEPT !.full = TRUE])
    /\ last' = [op |-> "send", agent |-> a,
                res |-> [sent |-> 1, global |-> proc[a].global]]
    /\ proc' = [proc EXCEPT ![a] = [pc |-> "idle"]]
    /\ UNCHANGED <<now, resdir, held, lease, cursor, workvars>>

\* The sending process dies where it is.
CrashSend(a) ==
    /\ proc[a].pc \in {"stamped", "opened"}
    /\ proc' = [proc EXCEPT ![a] = [pc |-> "crashed", at |-> proc[a].pc,
                                    dir |-> proc[a].dir, file |-> proc[a].file]]
    /\ UNCHANGED <<now, resdir, held, last, lease, mailvars, workvars>>

\* A complete recv_msgs of a process that is in no call.
PostRecv ==
    \E a \in Agents, n \in PostLimits, unread_only \in BOOLEAN, include_global \in BOOLEAN :
        proc[a].pc = "idle" /\ recv_msgs(a, n, unread_only, include_global)

NextPost ==
    \/ \E a \in Agents, global_broadcast \in BOOLEAN, unique \in Uniques :
          Stamp(a, global_broadcast, unique)
    \/ \E a \in Agents : Open(a)
    \/ \E a \in Agents : Write(a)
    \/ \E a \in Agents : CrashSend(a)
    \/ PostRecv
    \/ Tick

SpecPost == Init /\ [][NextPost]_vars

\* The step is a complete recv_msgs call.
RecvStep == Called("recv") /\ proc' = proc

\* The directory a message of a recv result of reader a came from.
FromDir(m, a) == IF "global" \in DOMAIN m THEN global_mail_dir(a) ELSE mail_dir(a)

\* C11: cursor monotonicity.  After a recv of reader R that went through
\* directory d and returned a non-empty list at time tau, no later
\* recv(unread_only = true) of R returns a message of d whose file name's
\* epoch is below tau; and no step lowers a stored cursor.
C11_CursorMonotonic ==
    [][/\ (RecvStep /\ last'.unread_only)
          => \A i \in 1..Len(last'.res) :
                last'.res[i].ts >= floor[FromDir(last'.res[i], last'.agent)][last'.agent]
       /\ \A d \in MailDirs, a \in Agents : cursor'[d][a] >= cursor[d][a]
      ]_vars

\* C12: atomic message publication.  A recv returns only messages of files
\* whose write has finished, and a sender that died inside send_msg has left
\* no file of its unfinished message in the directory.
C12_AtomicPublication ==
    [][/\ RecvStep
          => \A i \in 1..Len(last'.res) :
                \E f \in mail[FromDir(last'.res[i], last'.agent)] :
                    f.full /\ Tagged(f.msg, FromDir(last'.res[i], last'.agent), last'.agent)
                                = last'.res[i]
       /\ \A a \in Agents :
             (proc'[a].pc = "crashed" /\ "file" \in DOMAIN proc'[a])
             => ~\E f \in mail'[proc'[a].dir] : SameName(f, proc'[a].file) /\ ~f.full
      ]_vars

\* ------------------------------------- the tools that send and receive
\* A name suffix no file of directory d has at clock value t (uuid4).
FreshUnique(m, d, t) == Cardinality({f \in m[d] : f.ts = t})

\* send_msg by a process whose WS is w and whose TEAM is tm.
PostFrom(m, w, tm, a, subj, to, global_broadcast) ==
    SentFrom(m, IF global_broadcast THEN tm ELSE w, w, a, subj, to, now,
             FreshUnique(m, IF global_broadcast THEN tm ELSE w, now))

Post(m, a, subj, to, global_broadcast) ==
    PostFrom(m, ws[a], team[a], a, subj, to, global_broadcast)

\* str.lower() on the tags and roles of the model: "FE" is the one with an
\* upper-case letter.
Lower(str) == IF str = "FE" THEN "fe" ELSE str

\* AgentInfo as tool_init builds it (server.py:805-812), registered
\* (agent_registry.py:79-86).
AgentInfo(tm, role, w, is_leader, current_task) ==
    [team |-> tm, role |-> role, workspace |-> w, is_leader |-> is_leader,
     current_task |-> current_task, last_seen |-> now]

\* registry.register (agent_registry.py:79-86)
Register(reg, a, info) ==
    [b \in DOMAIN reg \cup {a} |-> IF b = a THEN info ELSE reg[b]]

\* registry.update_task (agent_registry.py:97-105)
UpdateTask(reg, a, task) ==
    IF a \in DOMAIN reg
    THEN [reg EXCEPT ![a] = [@ EXCEPT !.current_task = task, !.last_seen = now]]
    ELSE reg

\* The capabilities tool_init registers (server.py:795-799).
Capabilities(st) ==
    {"general"} \cup (IF st.role # None THEN {st.role} ELSE {})
                \cup (IF st.is_leader THEN {"leader"} ELSE {})

\* The registration of register_agent (server.py:581-588)
Registration(a, w, tm, st) ==
    [agent |-> a, ws |-> w, team |-> tm, capabilities |-> Capabilities(st),
     registered |-> now, last_seen |-> now]

\* A registration that writes nothing.
Unpublished(dir, a, rec) == dir

\* A registry directory after <a>.json has been written whole
\* (server.py:590-591).
Published(dir, a, rec) ==
    [b \in DOMAIN dir \cup {a} |-> IF b = a THEN [full |-> TRUE, rec |-> rec] ELSE dir[b]]

\* The reservation directory of the model is that of workspace W1.
SweptBy(w) == IF w = "W1" THEN Sweep(resdir, now) ELSE resdir

\* tool_init (server.py:733-853).  w, tm, role: the arguments ws, team and
\* role, None when absent; dir_ok: WS is a directory; bd_ok: bd init did not
\* fail.
tool_init(a, w, tm, role, leader, dir_ok, bd_ok) ==
    \E w1 \in {IF w # None THEN w ELSE ws[a]} :
    \E tm1 \in {IF tm # None THEN tm ELSE team[a]} :
    \E S1 \in {[S[a] EXCEPT !.role = IF role # None THEN Lower(role) ELSE @,
                            !.is_leader = IF leader THEN TRUE ELSE @]} :
       /\ ws' = [ws EXCEPT ![a] = w1]
       /\ team' = [team EXCEPT ![a] = tm1]
       /\ S' = [S EXCEPT ![a] = S1]
       /\ IF ~dir_ok
          THEN /\ last' = [op |-> "init", agent |-> a,
                           res |-> [error |-> <<"workspace not found: ", w1>>]]
               /\ UNCHANGED <<resdir, registry, agents, mail>>
          ELSE IF ~bd_ok
          THEN /\ last' = [op |-> "init", agent |-> a, res |-> [error |-> <<"bd init">>]]
               /\ UNCHANGED <<resdir, registry, agents, mail>>
          ELSE /\ resdir' = SweptBy(w1)
               /\ registry' = [registry EXCEPT ![w1] =
                     Register(@, a, AgentInfo(tm1, S1.role, w1, S1.is_leader,
                                              S1.current_task))]
               /\ agents' = [agents EXCEPT ![tm1] =
                     Published(@, a, Registration(a, w1, tm1, S1))]
               /\ mail' = PostFrom(PostFrom(mail, w1, tm1, a, "join", "all", FALSE),
                                   w1, tm1, a, "join", "all", TRUE)
               /\ last' = [op |-> "init", agent |-> a, ws |-> w, team |-> tm,
                           res |-> [ok |-> 1, agent |-> a, ws |-> w1, team |-> tm1,
                                    role |-> S1.role, is_leader |-> S1.is_leader]]
       /\ UNCHANGED <<now, held, lease, proc, cursor, floor, store>>

\* tool_msg (server.py:1388-1402)
tool_msg(a, subj, to, global_broadcast) ==
    /\ IF subj = ""
       THEN /\ last' = [op |-> "msg", agent |-> a, res |-> [error |-> "subj required"]]
            /\ UNCHANGED mail
       ELSE /\ mail' = Post(mail, a, subj, to, global_broadcast)
            /\ last' = [op |-> "msg", agent |-> a,
                        res |-> [ok |-> 1, global |-> global_broadcast]]
    /\ UNCHANGED <<now, resdir, held, lease, proc, cursor, workvars>>

\* tool_broadcast (server.py:1426-1441)
tool_broadcast(a, subj) ==
    /\ IF subj = ""
       THEN /\ last' = [op |-> "broadcast", agent |-> a,
                        res |-> [error |-> "subj required"]]
            /\ UNCHANGED mail
       ELSE /\ mail' = Post(mail, a, subj, "all", TRUE)
            /\ last' = [op |-> "broadcast", agent |-> a,
                        res |-> [ok |-> 1, broadcast |-> TRUE]]
    /\ UNCHANGED <<now, resdir, held, lease, proc, cursor, workvars>>

\* The entry tool_inbox makes of a message (server.py:1413-1421).
Item(m) ==
    [f |-> m.f, s |-> m.s, ts |-> m.ts, ws |-> m.ws,
     global |-> IF "global" \in DOMAIN m THEN m.global ELSE FALSE]

\* tool_inbox (server.py:1405-1423)
tool_inbox(a, n, unread, include_global) ==
    \E local \in {Collect(mail_dir(a), a, unread)} :
    \E hub \in {IF include_global THEN Collect(global_mail_dir(a), a, unread) ELSE <<>>} :
    \E msgs \in {LastN(SortByTs(local \o hub), n)} :
       /\ cursor' = CursorAfter(a, include_global, local, local \o hub)
       /\ floor' = FloorAfter(a, include_global, msgs)
       /\ last' = [op |-> "inbox", agent |-> a, n |-> n, unread |-> unread,
                   global |-> include_global,
                   res |-> [i \in 1..Len(msgs) |-> Item(msgs[i])]]
       /\ UNCHANGED <<now, mail, resdir, held, lease, proc, ws, team, S, store, registry, agents>>

\* --------------------------------------------- teams and workspaces
\* A runs in workspace W1 and team T1; B is started in any workspace and
\* team (BEADS_WS, BEADS_TEAM).  Both may switch with init.
InitTeam ==
    /\ now = 1
    /\ resdir = <<>>
    /\ held = [a \in Agents |-> {}]
    /\ last = NoCall
    /\ lease = NoLease
    /\ proc = Idle
    /\ mail = [d \in MailDirs |-> {}]
    /\ cursor = [d \in MailDirs |-> [a \in Agents |-> 0]]
    /\ floor = [d \in MailDirs |-> [a \in Agents |-> 0]]
    /\ ws \in {f \in [Agents -> Workspaces] : f["A"] = "W1"}
    /\ team \in {f \in [Agents -> Teams] : f["A"] = "T1"}
    /\ S = [a \in Agents |-> NewState]
    /\ store = Backlog
    /\ registry = [w \in Workspaces |-> <<>>]
    /\ agents = NoAgents

\* The subjects and the n arguments of the model's calls; 5 is inbox's
\* default n (server.py:1407).
Subjects == {"hi"}

InboxLimits == {0, 1, 5}

\* A writes; B reads and joins.
Writers == {"A"}

Readers == {"B"}

\* Room for k more messages.
Room(k) == Cardinality(AllMail) + k <= MaxPosts

TeamInit ==
    \E a \in Readers, w \in {None, "W2"}, tm \in {None, "T2"} :
        Room(2) /\ tool_init(a, w, tm, None, FALSE, TRUE, TRUE)

\* msg to all in the workspace, or to A itself through the team's hub.
TeamMsg ==
    \E a \in Writers, subj \in Subjects, x \in {<<"all", FALSE>>, <<"A", TRUE>>} :
        Room(1) /\ tool_msg(a, subj, x[1], x[2])

TeamBroadcast ==
    \E a \in Writers, subj \in Subjects : Room(1) /\ tool_broadcast(a, subj)

\* inbox with and without the hub, and of the unread messages of both.
TeamInbox ==
    \E a \in Readers, n \in InboxLimits,
       x \in {<<FALSE, TRUE>>, <<FALSE, FALSE>>, <<TRUE, TRUE>>} :
        tool_inbox(a, n, x[1], x[2])

\* The wall clock advances, once.
TeamTick == now < MaxTime - 1 /\ Tick

NextTeam ==
    \/ TeamInit
    \/ TeamMsg
    \/ TeamBroadcast
    \/ TeamInbox
    \/ TeamTick

SpecTeam == InitTeam /\ [][NextTeam]_vars

\* The inbox entry of message file f, flagged as a team message or not.
EntryOf(f, flag) ==
    [f |-> f.msg.f, s |-> f.msg.s, ts |-> f.msg.ts, ws |-> f.msg.ws, global |-> flag]

\* File f of directory d is one reader b's inbox call has to consider: it is
\* complete, addressed to b or to all, within the window, and newer than b's
\* cursor when only unread messages are asked for.
Eligible(f, d, b, unread) ==
    /\ f.full
    /\ f.msg.t \in {"all", b}
    /\ InWindow(d, f)
    /\ unread => f.ts > cursor[d][b]

\* How many messages b's inbox call has to consider.
Considered(b, unread, include_global) ==
    Cardinality({f \in mail[ws[b]] : Eligible(f, ws[b], b, unread)})
    + IF include_global
      THEN Cardinality({f \in mail[team[b]] : Eligible(f, team[b], b, unread)})
      ELSE 0

\* What a team-scope or local send writes: one complete file in the sender's
\* team directory (broadcast, msg with global) or workspace directory,
\* carrying the sender's workspace.
SendsRight ==
    (Called("msg") \/ Called("broadcast"))
    => /\ "error" \notin DOMAIN last'.res
       /\ \E d \in MailDirs : \E f \in mail'[d] :
             /\ f \notin mail[d]
             /\ mail' = [mail EXCEPT ![d] = @ \cup {f}]
             /\ f.full /\ f.msg.f = last'.agent /\ f.msg.ws = ws[last'.agent]
             /\ d = IF Called("broadcast") \/ last'.res.global
                    THEN team[last'.agent] ELSE ws[last'.agent]

\* Isolation and flags: every entry of an inbox result flagged global is a
\* message of the hub of the reader's current team, asked for with
\* global = true; every other entry is a message of the reader's workspace.
InboxIsolated ==
    Called("inbox")
    => \A i \in 1..Len(last'.res) :
          IF last'.res[i].global
          THEN /\ last'.global
               /\ \E f \in mail[team[last'.agent]] : EntryOf(f, TRUE) = last'.res[i]
          ELSE \E f \in mail[ws[last'.agent]] : EntryOf(f, FALSE) = last'.res[i]

\* C14, as stated: every team-scope message of team T is in the result of
\* every inbox(global = true) of an agent of team T.
C14_TeamDeliveryAlways ==
    [][/\ SendsRight
       /\ InboxIsolated
       /\ (Called("inbox") /\ last'.global)
          => \A f \in mail[team[last'.agent]] : EntryOf(f, TRUE) \in Range(last'.res)
      ]_vars

\* C14, amended: team-scoped delivery and isolation.  A team-scope message
\* is written to the hub of the sender's team with the sender's workspace in
\* it.  inbox(global = true, n) of an agent of team T returns, flagged global
\* and with that workspace, every message of T's hub that is addressed to the
\* agent or to all, lies within the window and (with unread) is newer than the
\* agent's cursor, provided n is not smaller than the number of messages the
\* call has to consider; the same holds unflagged for the agent's workspace
\* directory.  No entry flagged global comes from anywhere but the hub of
\* the reader's current team.
C14_TeamDelivery ==
    [][/\ SendsRight
       /\ InboxIsolated
       /\ ( /\ Called("inbox")
            /\ last'.n >= Considered(last'.agent, last'.unread, last'.global) )
          => /\ last'.global
                => \A f \in mail[team[last'.agent]] :
                      Eligible(f, team[last'.agent], last'.agent, last'.unread)
                      => EntryOf(f, TRUE) \in Range(last'.res)
             /\ \A f \in mail[ws[last'.agent]] :
                   Eligible(f, ws[last'.agent], last'.agent, last'.unread)
                   => EntryOf(f, FALSE) \in Range(last'.res)
      ]_vars

\* B, in workspace W2 and team T1, has called inbox with global = true and
\* got A's team message from workspace W1, flagged global.
C14_Witness ==
    /\ last.op = "inbox" /\ last.agent = "B" /\ last.global
    /\ ws["B"] = "W2" /\ team["B"] = "T1"
    /\ \E i \in 1..Len(last.res) :
          last.res[i] = [f |-> "A", s |-> "hi", ts |-> 1, ws |-> "W1", global |-> TRUE]

\* C15: an inbox call with limit n returns min(n, candidates) entries, none
\* for n = 0: the n most recent by message timestamp of the candidates of
\* the workspace directory and the team hub together, oldest first.
C15_RecvLimit ==
    [][Called("inbox")
       => LET res == last'.res
              b == last'.agent
              cand == Considered(b, last'.unread, last'.global)
              Left(d, flag) == {f \in mail[d] : /\ Eligible(f, d, b, last'.unread)
                                                /\ EntryOf(f, flag) \notin Range(res)}
          IN /\ Len(res) = IF last'.n < cand THEN last'.n ELSE cand
             /\ \A i \in 1..Len(res) : \A k \in i..Len(res) : res[i].ts <= res[k].ts
             /\ \A i \in 1..Len(res) :
                   /\ \A f \in Left(ws[b], FALSE) : f.msg.ts <= res[i].ts
                   /\ last'.global => \A f \in Left(team[b], TRUE) : f.msg.ts <= res[i].ts
      ]_vars

\* --------------------------------------------- the issue store and the work
\* How many message files SpecWork lets the mailboxes hold.
MaxMail == 4

\* bd ready: the open issues, in the store's order.
Ready(st) == SelectSeq(st, LAMBDA i : i.status = "open")

Ids(st) == {st[k].id : k \in 1..Len(st)}

\* bd update <id> --status <status>
SetStatus(st, id, status) ==
    [k \in 1..Len(st) |-> IF st[k].id = id THEN [st[k] EXCEPT !.status = status]
                          ELSE st[k]]

\* bd update <id> --tag <tag>
AddTag(st, id, tag) ==
    [k \in 1..Len(st) |->
        IF st[k].id = id /\ tag \notin Range(st[k].tags)
        THEN [st[k] EXCEPT !.tags = Append(@, tag)]
        ELSE st[k]]

\* No filter at all.
MatchingAll(role, issues) == issues

\* A filter that falls back on the whole list when nothing passes.
MatchingOrAll(role, issues) ==
    IF role = None THEN issues
    ELSE LET fit == SelectSeq(issues,
                       LAMBDA i : i.tags = <<>> \/ role \in {Lower(t) : t \in Range(i.tags)})
         IN IF fit = <<>> THEN issues ELSE fit

\* The role filter of tool_claim (server.py:884-900): without a role every
\* issue passes; with one, those without tags or with the role among their
\* lower-cased tags.
Matching(role, issues) ==
    IF role = None THEN issues
    ELSE SelectSeq(issues,
            LAMBDA i : i.tags = <<>> \/ role \in {Lower(t) : t \in Range(i.tags)})

\* tool_claim (server.py:856-928).  ready_ok: bd ready gave a list and not an
\* error; upd_ok: bd update did what it was asked (its result is not looked
\* at, server.py:907).
tool_claim(a, ready_ok, upd_ok) ==
    \E r \in {Ready(store)} :
    \E issues \in {Matching(S[a].role, r)} :
       /\ IF ~ready_ok
          THEN /\ last' = [op |-> "claim", agent |-> a, res |-> [error |-> "bd ready"]]
               /\ UNCHANGED <<store, S, registry, mail>>
          ELSE IF r = <<>>
          THEN /\ last' = [op |-> "claim", agent |-> a,
                           res |-> [ok |-> 0, msg |-> "no ready tasks"]]
               /\ UNCHANGED <<store, S, registry, mail>>
          ELSE IF issues = <<>>
          THEN /\ last' = [op |-> "claim", agent |-> a,
                           res |-> [ok |-> 0,
                                    msg |-> "no tasks for role '" \o S[a].role \o "'",
                                    total_ready |-> Len(r)]]
               /\ UNCHANGED <<store, S, registry, mail>>
          ELSE /\ store' = IF upd_ok THEN SetStatus(store, issues[1].id, "in_progress")
                           ELSE store
               /\ S' = [S EXCEPT ![a].issue = issues[1].id,
                                 ![a].current_task = issues[1].id]
               /\ registry' = [registry EXCEPT ![ws[a]] = UpdateTask(@, a, issues[1].id)]
               /\ mail' = Post(mail, a, "claimed:" \o issues[1].id, "all", FALSE)
               /\ last' = [op |-> "claim", agent |-> a,
                           res |-> [id |-> issues[1].id, s |-> "in_progress",
                                    tags |-> issues[1].tags]]
       /\ UNCHANGED <<now, resdir, held, lease, proc, cursor, floor, ws, team, agents>>

\* tool_done (server.py:931-979).  id: the argument, None when absent;
\* close_ok: bd close did not fail.  The files it removes are those of the
\* current workspace's reservation directory (server.py:953); the model's
\* agents reserve in W1 only, so W2's directory is empty, and W2's issue
\* store, which holds the same issues, is followed by its replies only.
tool_done(a, id, close_ok) ==
    \E issue_id \in {IF id # None THEN id ELSE S[a].issue} :
       /\ IF issue_id = None
          THEN /\ last' = [op |-> "done", agent |-> a, res |-> [error |-> "no issue id"]]
               /\ UNCHANGED <<store, resdir, held, S, registry, mail>>
          ELSE IF ~close_ok \/ issue_id \notin Ids(store)
          THEN /\ last' = [op |-> "done", agent |-> a, res |-> [error |-> "bd close"]]
               /\ UNCHANGED <<store, resdir, held, S, registry, mail>>
          ELSE /\ store' = IF ws[a] = "W1" THEN SetStatus(store, issue_id, "closed")
                           ELSE store
               /\ resdir' = IF ws[a] = "W1"
                            THEN [f \in DOMAIN resdir \ DoneRemoves(a) |-> resdir[f]]
                            ELSE resdir
               /\ held' = [held EXCEPT ![a] = {}]
               /\ mail' = Post(mail, a, "done:" \o issue_id, "all", FALSE)
               /\ S' = [S EXCEPT ![a].issue = None, ![a].current_task = None,
                                 ![a].done = @ + 1]
               /\ registry' = [registry EXCEPT ![ws[a]] = UpdateTask(@, a, None)]
               /\ last' = [op |-> "done", agent |-> a,
                           res |-> [ok |-> 1, done |-> S[a].done + 1]]
       /\ UNCHANGED <<now, lease, proc, cursor, floor, ws, team, agents>>

\* A gate that lets everybody through.
EverybodyLeads(a) == TRUE

\* The gate of tool_assign (server.py:1086)
IsLeader(a) == S[a].is_leader

\* tool_assign (server.py:1075-1139).  tag_ok: bd update --tag did what it
\* was asked (an error is passed over, server.py:1119-1122).
tool_assign(a, id, role, notify, tag_ok) ==
    /\ IF ~IsLeader(a)
       THEN /\ last' = [op |-> "assign", agent |-> a,
                        res |-> [error |-> "permission denied"]]
            /\ UNCHANGED <<store, mail>>
       ELSE IF id = ""
       THEN /\ last' = [op |-> "assign", agent |-> a, res |-> [error |-> "id required"]]
            /\ UNCHANGED <<store, mail>>
       ELSE IF role = ""
       THEN /\ last' = [op |-> "assign", agent |-> a, res |-> [error |-> "role required"]]
            /\ UNCHANGED <<store, mail>>
       ELSE IF id \notin Ids(store)
       THEN /\ last' = [op |-> "assign", agent |-> a, res |-> [error |-> "bd show"]]
            /\ UNCHANGED <<store, mail>>
       ELSE /\ store' = IF tag_ok THEN AddTag(store, id, Lower(role)) ELSE store
            /\ mail' = IF notify THEN Post(mail, a, "assigned:" \o id, "all", TRUE)
                       ELSE mail
            /\ last' = [op |-> "assign", agent |-> a,
                        res |-> [ok |-> 1, id |-> id, assigned_to |-> Lower(role)]]
    /\ UNCHANGED <<now, resdir, held, lease, proc, cursor, floor, ws, team, S, registry, agents>>

\* One workspace and one team.  A asks for the leader flag, assigns and
\* writes; B takes a role, claims, closes, reads, and tries to assign.
RoomFor(k) == Cardinality(AllMail) + k <= MaxMail

\* The outcomes of the two issue-store calls of a handler.
Outcomes == {<<TRUE, TRUE>>, <<TRUE, FALSE>>, <<FALSE, TRUE>>}

\* The arguments of assign: id, role, notify, and whether the tag is stored.
Assignments ==
    { <<"", "FE", TRUE, TRUE>>, <<"3", "", TRUE, TRUE>>, <<"9", "FE", TRUE, TRUE>>,
      <<"3", "FE", TRUE, TRUE>>, <<"3", "FE", FALSE, TRUE>>, <<"3", "FE", TRUE, FALSE>> }

WorkInit ==
    \/ \E leader \in BOOLEAN : RoomFor(2) /\ tool_init("A", None, None, None, leader, TRUE, TRUE)
    \/ \E role \in {"fe", "qa"}, ok \in Outcomes :
          RoomFor(2) /\ tool_init("B", None, None, role, FALSE, ok[1], ok[2])

WorkClaim == \E ok \in Outcomes : RoomFor(1) /\ tool_claim("B", ok[1], ok[2])

WorkDone ==
    \E x \in {<<None, TRUE>>, <<None, FALSE>>, <<"9", TRUE>>} :
       RoomFor(1) /\ tool_done("B", x[1], x[2])

WorkAssign ==
    \/ \E x \in Assignments : RoomFor(1) /\ tool_assign("A", x[1], x[2], x[3], x[4])
    \/ tool_assign("B", "3", "FE", TRUE, TRUE)

WorkMsg == RoomFor(1) /\ tool_msg("A", "hi", "all", FALSE)

WorkBroadcast == RoomFor(1) /\ tool_broadcast("A", "hi")

WorkInbox == tool_inbox("B", 5, TRUE, TRUE)

NextWork ==
    \/ WorkInit
    \/ WorkClaim
    \/ WorkDone
    \/ WorkAssign
    \/ WorkMsg
    \/ WorkBroadcast
    \/ WorkInbox

SpecWork == Init /\ [][NextWork]_vars

\* C13: messages are append-only.  Over every step of init, claim, done,
\* assign, msg, broadcast and inbox, by any agent, every message file of
\* every mailbox directory is still there afterwards, under the same name and
\* with the same content.
C13_AppendOnly ==
    [][\A d \in MailDirs : \A f \in mail[d] : f \in mail'[d]]_vars

\* B has closed the issue it claimed: the workspace directory holds its
\* claimed and done messages next to older ones, the hub holds messages,
\* and B has read its mail.
C13_Witness ==
    /\ last.op = "done" /\ "ok" \in DOMAIN last.res
    /\ \E f \in mail["W1"] : f.msg.s = "claimed:1"
    /\ \E f \in mail["W1"] : f.msg.s = "done:1"
    /\ mail["T1"] # {}
    /\ Cardinality(AllMail) = MaxMail
    /\ cursor["W1"]["B"] > 0

\* Issue i passes the filter of role r: no tags, or r among its tags,
\* whatever the case of the tag's letters.
Fits(i, r) == i.tags = <<>> \/ \E t \in Range(i.tags) : Lower(t) = r

\* Issue i has no tags or has r itself among them.
FitsExactly(i, r) == i.tags = <<>> \/ r \in Range(i.tags)

\* The claim step has returned an issue.
Claimed == Called("claim") /\ "id" \in DOMAIN last'.res

\* The issue a claim returns is the k-th of the store: it is ready and
\* passes the filter of the session's role, no ready issue before it does,
\* and the store changes at most in the status of that issue, to in_progress.
FirstFit(k, Pass(_, _)) ==
    LET r == S[last'.agent].role
    IN /\ store[k].id = last'.res.id
       /\ store[k].status = "open"
       /\ r # None => Pass(store[k], r)
       /\ \A m \in 1..(k - 1) : store[m].status = "open" => (r # None /\ ~Pass(store[m], r))
       /\ store' \in {store, SetStatus(store, store[k].id, "in_progress")}
       /\ S'[last'.agent].issue = store[k].id

NoWork(Pass(_, _)) ==
    LET r == S[last'.agent].role
    IN \A k \in 1..Len(store) :
          store[k].status = "open" => (r # None /\ ~Pass(store[k], r))

\* The reply of a claim that found nothing, or the store's error.
NoWorkReply ==
    \/ "error" \in DOMAIN last'.res
    \/ /\ "ok" \in DOMAIN last'.res /\ last'.res.ok = 0
       /\ last'.res.msg = IF Ready(store) = <<>> THEN "no ready tasks"
                          ELSE "no tasks for role '" \o S[last'.agent].role \o "'"

\* Nothing but the reply changes.
OnlyReplies ==
    UNCHANGED <<store, S, registry, agents, mail, resdir, held, cursor, ws, team>>

C18_LeaderGate ==
    [][/\ (Called("assign") /\ ~S[last'.agent].is_leader)
          => /\ "error" \in DOMAIN last'.res
             /\ last'.res.error = "permission denied"
             /\ UNCHANGED <<store, mail, registry, S>>
       /\ (Called("assign") /\ (store' # store \/ mail' # mail))
          => S[last'.agent].is_leader
       /\ \A a \in Agents :
             S'[a].is_leader # S[a].is_leader
             => /\ Called("init") /\ last'.agent = a
                /\ S'[a].is_leader
      ]_vars

\* A, leader since its init, has assigned issue 3 to role fe: the tag is on
\* the issue and the assigned message is in the hub; B, no leader, still
\* is none.
C18_Witness ==
    /\ last.op = "assign" /\ last.agent = "A" /\ "ok" \in DOMAIN last.res
    /\ S["A"].is_leader /\ ~S["B"].is_leader
    /\ "fe" \in Range(store[3].tags)
    /\ \E f \in mail["T1"] : f.msg.s = "assigned:3" /\ f.msg.f = "A"

\* --------------------------------------------- the two transports
\* The tool catalog (server.py:1509-1727, 1984-2047, 2105-2120).
TOOLS ==
    {"init", "claim", "done", "add", "assign", "ls", "ready", "show", "cleanup",
     "doctor", "sync", "reserve", "release", "reservations", "msg", "inbox",
     "broadcast", "discover", "status", "bv_insights", "bv_plan", "bv_priority",
     "bv_diff", "bv_tui", "bv_status", "village_tui"}

\* The tools the HTTP transport can call (http_server.py:49-71).
TOOL_FUNCTIONS ==
    {"init", "claim", "done", "add", "ls", "show", "reserve", "release",
     "reservations", "msg", "inbox", "status", "sync", "cleanup", "doctor",
     "assign", "bv_insights", "bv_plan", "bv_priority", "bv_diff", "village_tui"}

\* A request: its method, its id (None: absent), the JSON shape of params
\* (absent, null, object, array), the shape of params.name (absent, string,
\* array) and the name when it is a string.
Methods ==
    {"initialize", "notifications/initialized", "tools/list", "tools/call", "ping",
     "resources/list"}

Request(method, id, params, shape, name) ==
    [method |-> method, id |-> id, params |-> params, shape |-> shape, name |-> name]

\* The requests of the model that call a tool.
Calls ==
    {Request("tools/call", id, "object", "string", name) :
        id \in {"1", None}, name \in TOOLS \cup {"nope"}}
    \cup {Request("tools/call", "1", "object", shape, "") : shape \in {"absent", "array"}}
    \cup {Request("tools/call", "1", params, "absent", "") : params \in {"absent", "null"}}

\* The other requests.
Others ==
    {Request(method, id, "absent", "absent", "") :
        method \in Methods \ {"tools/call"}, id \in {"1", None}}

\* A tools/call whose params is a JSON array: the HTTP transport's request
\* model does not accept it.
ArrayCall == Request("tools/call", "1", "array", "absent", "")

\* Replies.
Result(id, body) == [kind |-> "result", id |-> id, body |-> body]

Error(id, code, message) ==
    [kind |-> "error", id |-> id, body |-> [code |-> code, message |-> message]]

\* No reply is written.
Nothing == [kind |-> "none", id |-> None, body |-> <<>>]

\* An exception leaves the dispatcher.
Raised(exc) == [kind |-> "raised", id |-> None, body |-> [exception |-> exc]]

\* handle_request (server.py:1733-1822).  raises: the tool's handler raises
\* an exception.
handle_request(req, raises) ==
    IF req.method = "initialize"
    THEN Result(req.id, [serverInfo |-> "2.0", instructions |-> TRUE])
    ELSE IF req.method = "notifications/initialized" THEN Nothing
    ELSE IF req.method = "tools/list"
    THEN Result(req.id, [tools |-> TOOLS, annotations |-> TRUE])
    ELSE IF req.method = "tools/call"
    THEN IF req.params \in {"null", "array"} THEN Raised("AttributeError")
         ELSE IF req.params = "object" /\ req.shape = "array" THEN Raised("TypeError")
         ELSE IF req.params = "object" /\ req.shape = "string" /\ req.name \in TOOLS
         THEN IF raises
              THEN Result(req.id, [content |-> {"error", "hint"}, isError |-> TRUE])
              ELSE Result(req.id, [content |-> {"text"}, isError |-> FALSE])
         ELSE Error(req.id, -32601, "Unknown tool")
    ELSE IF req.method = "ping" THEN Result(req.id, <<>>)
    ELSE Error(req.id, -32601, "Unknown method")

\* mcp_post with handle_tool_call (http_server.py:218-301, 132-161)
mcp_post(req, raises) ==
    IF req.method = "tools/list"
    THEN Result(req.id, [tools |-> TOOLS, annotations |-> FALSE])
    ELSE IF req.method = "tools/call"
    THEN IF req.params \in {"absent", "null"} \/ req.shape = "absent"
         THEN Error(req.id, -32000, "Missing 'name' in params")
         ELSE IF req.shape = "array" THEN Error(req.id, -32000, "unhashable type")
         ELSE IF req.name \notin TOOL_FUNCTIONS THEN Error(req.id, -32000, "Unknown tool")
         ELSE IF raises THEN Error(req.id, -32000, "exception")
         ELSE Result(req.id, [content |-> {"text"}, isError |-> FALSE])
    ELSE IF req.method = "initialize"
    THEN Result(req.id, [serverInfo |-> "1.4.0", instructions |-> FALSE])
    ELSE IF req.method = "notifications/initialized" THEN Nothing
    ELSE Error(req.id, -32601, "Method not found")

\* One turn of run_server's loop (server.py:1841-1855) in the process of
\* agent a: the request is handled and the reply, if there is one, written;
\* an exception out of handle_request ends the loop.
StreamRequest(a) ==
    \E req \in Calls \cup Others \cup {ArrayCall}, raises \in BOOLEAN :
       LET resp == handle_request(req, raises)
       IN /\ proc[a].pc = "idle"
          /\ proc' = IF resp.kind = "raised" THEN [proc EXCEPT ![a] = [pc |-> "exited"]]
                     ELSE proc
          /\ last' = [op |-> "rpc", agent |-> a, transport |-> "stream", req |-> req,
                      raises |-> raises, res |-> resp]
          /\ UNCHANGED <<now, resdir, held, lease, mailvars, workvars>>

\* One POST to /mcp of agent a's HTTP server.
HttpRequest(a) ==
    \E req \in Calls \cup Others, raises \in BOOLEAN :
       /\ last' = [op |-> "rpc", agent |-> a, transport |-> "http", req |-> req,
                   raises |-> raises, res |-> mcp_post(req, raises)]
       /\ UNCHANGED <<now, resdir, held, lease, proc, mailvars, workvars>>

NextRpc ==
    \/ \E a \in Agents : StreamRequest(a)
    \/ \E a \in Agents : HttpRequest(a)

SpecRpc == Init /\ [][NextRpc]_vars

\* C19: dispatcher closure.  Every tools/call, on either transport, yields
\* one reply carrying the request's id, a result (with isError and an
\* {error, hint} body when the handler raised) or an error object, and the
\* stream loop goes on.
C19_DispatcherClosure ==
    [][(Called("rpc") /\ last'.req.method = "tools/call")
       => /\ last'.res.kind \in {"result", "error"}
          /\ last'.res.id = last'.req.id
          /\ (last'.res.kind = "result" /\ last'.raises)
             => /\ last'.res.body.isError
                /\ last'.res.body.content = {"error", "hint"}
          /\ proc' = proc
      ]_vars

\* What the two transports have to agree on: result or error, the id, the
\* error code, the isError flag of a tool's result and the names of the tools
\* listed.
Semantics(resp) ==
    [kind |-> resp.kind,
     id |-> resp.id,
     code |-> IF resp.kind = "error" THEN resp.body.code ELSE 0,
     isError |-> IF resp.kind = "result" /\ "isError" \in DOMAIN resp.body
                 THEN resp.body.isError ELSE FALSE,
     tools |-> IF resp.kind = "result" /\ "tools" \in DOMAIN resp.body
               THEN resp.body.tools ELSE {}]

\* C20: transport equivalence.  Whatever request one transport has just
\* answered, other than notifications/initialized and other than a request
\* the HTTP request model rejects, the other transport's answer to it has the
\* same semantics.
C20_TransportEquivalence ==
    (/\ last.op = "rpc"
     /\ last.req.method # "notifications/initialized"
     /\ last.req # ArrayCall)
    => /\ Semantics(handle_request(last.req, last.raises))
          = Semantics(mcp_post(last.req, last.raises))
       /\ last.res = IF last.transport = "stream"
                     THEN handle_request(last.req, last.raises)
                     ELSE mcp_post(last.req, last.raises)

\* --------------------------------------------- the loop of the stream transport
\* How many lines the model feeds to a server.
MaxLines == 3

\* The process that serves the stream.
Servers == {"A"}

\* A line of standard input: a request, text that is not JSON (garbage), or
\* JSON that is not an object (array).
Line(kind, req) == [kind |-> kind, req |-> req]

NoRequest == Request("", None, "absent", "absent", "")

StreamRequests ==
    { Request("initialize", "1", "absent", "absent", ""),
      Request("notifications/initialized", None, "absent", "absent", ""),
      Request("tools/call", "1", "object", "string", "claim"),
      Request("tools/call", "2", "object", "string", "claim"),
      Request("ping", "2", "absent", "absent", ""),
      Request("tools/call", "2", "null", "absent", "") }

Lines ==
    {Line("request", req) : req \in StreamRequests}
    \cup {Line("garbage", NoRequest), Line("array", NoRequest)}

\* The loop before its first readline.
Serving == [pc |-> "reading", lines |-> <<>>, out |-> <<>>]

InitStream ==
    /\ now = 1
    /\ resdir = <<>>
    /\ held = [a \in Agents |-> {}]
    /\ last = NoCall
    /\ lease = NoLease
    /\ proc = [a \in Agents |-> IF a \in Servers THEN Serving ELSE [pc |-> "idle"]]
    /\ mail = [d \in MailDirs |-> {}]
    /\ cursor = [d \in MailDirs |-> [a \in Agents |-> 0]]
    /\ Started

\* readline and json.loads (server.py:1842-1849): a line that does not parse
\* is passed over and the loop reads on.
ReadLine(a) ==
    \E line \in Lines :
       /\ proc[a].pc = "reading"
       /\ Len(proc[a].lines) < MaxLines
       /\ proc' = [proc EXCEPT ![a].lines = Append(@, line),
                               ![a].pc = IF line.kind = "garbage" THEN "reading"
                                         ELSE "handling"]
       /\ UNCHANGED <<now, resdir, held, last, lease, mailvars, workvars>>

\* readline returns nothing: end of input (server.py:1843-1844).
EndOfInput(a) ==
    /\ proc[a].pc = "reading"
    /\ proc' = [proc EXCEPT ![a].pc = "closed"]
    /\ UNCHANGED <<now, resdir, held, last, lease, mailvars, workvars>>

\* The reply of handle_request to a parsed line: req.get raises for JSON
\* that is not an object (server.py:1735).
Reply(line, raises) ==
    IF line.kind = "array" THEN Raised("AttributeError")
    ELSE handle_request(line.req, raises)

\* run_until_complete(handle_request(req)) and the write of the reply
\* (server.py:1851-1856); an exception ends the loop.
Handle(a) ==
    /\ proc[a].pc = "handling"
    /\ \E raises \in BOOLEAN :
       \E resp \in {Reply(proc[a].lines[Len(proc[a].lines)], raises)} :
          proc' = [proc EXCEPT
                     ![a].pc = IF resp.kind = "raised" THEN "exited" ELSE "reading",
                     ![a].out = IF resp.kind \in {"raised", "none"} THEN @
                                ELSE Append(@, resp)]
    /\ UNCHANGED <<now, resdir, held, last, lease, mailvars, workvars>>

NextStream ==
    \/ \E a \in Servers : ReadLine(a)
    \/ \E a \in Servers : EndOfInput(a)
    \/ \E a \in Servers : Handle(a)

SpecStream == InitStream /\ [][NextStream]_vars

\* The lines a reply has to be written for: all but the
\* notifications/initialized notification.
Expecting(lines) ==
    SelectSeq(lines, LAMBDA l : ~(l.kind = "request"
                                  /\ l.req.method = "notifications/initialized"))

\* The lines the loop is through with.
Consumed(a) ==
    IF proc[a].pc = "handling" THEN SubSeq(proc[a].lines, 1, Len(proc[a].lines) - 1)
    ELSE proc[a].lines

\* C21: stream ordering and no silent drop.  At every moment the replies
\* written are, in order, the replies to the lines consumed so far that are
\* not the notifications/initialized notification: the k-th reply carries
\* the id of the k-th such line, and none of these lines is without a reply.
C21_StreamOrdering ==
    \A a \in Servers :
       LET exp == Expecting(Consumed(a))
       IN /\ Len(proc[a].out) = Len(exp)
          /\ \A k \in 1..Len(exp) :
                /\ proc[a].out[k].kind \in {"result", "error"}
                /\ proc[a].out[k].id = exp[k].req.id

\* C28: done never deletes another agent's reservation.  Every record that a
\* done call removes from the reservation directory, or changes, names the
\* caller as its holder.
C28_DoneOwnOnly ==
    [][Called("done")
       => \A f \in DOMAIN resdir :
             (f \notin DOMAIN resdir' \/ resdir'[f] # resdir[f])
             => (resdir[f].full /\ resdir[f].rec.agent = last'.agent)
      ]_vars

\* C27: teams are isolated for mail.  The writers of SpecTeam never change
\* team, so team[a] is the team a writer's messages were sent from: no entry
\* of an inbox result, local or flagged global, is a message of a writer whose
\* team is not the reader's current team, also when both run in the same
\* workspace directory.
C27_TeamMailIsolation ==
    [][Called("inbox")
       => \A i \in 1..Len(last'.res) : \A a \in Writers :
             last'.res[i].f = a => team[a] = team[last'.agent]
      ]_vars

\* --------------------------------------------- agent status
\* The freshness window of is_online, in seconds (agent_registry.py:35).
OnlineWindow == 300

\* A record seen exactly OnlineWindow seconds ago still counts as online.
is_online_late(r, t) == t - r.last_seen <= OnlineWindow

\* AgentInfo.is_online (agent_registry.py:32-35) at time t
is_online(r, t) == t - r.last_seen < OnlineWindow

\* AgentInfo.status (agent_registry.py:37-44); a task id is a non-empty
\* string, so current_task is true when it is not None.
status(r, t) ==
    IF ~is_online(r, t) THEN "offline"
    ELSE IF r.current_task # None THEN "working"
    ELSE "online"

\* AgentRegistry.get_stats (agent_registry.py:165-180)
get_stats(reg, t) ==
    LET all_agents == DOMAIN reg
        active == {a \in all_agents : is_online(reg[a], t)}
        working == {a \in active : reg[a].current_task # None}
        teams == {reg[a].team : a \in active}
    IN [total_registered |-> Cardinality(all_agents),
        active |-> Cardinality(active),
        working |-> Cardinality(working),
        idle |-> Cardinality(active) - Cardinality(working),
        offline |-> Cardinality(all_agents) - Cardinality(active),
        teams |-> teams,
        team_count |-> Cardinality(teams)]

\* The times, in seconds, of the status model: the clock and the records'
\* last_seen.
Clock == {299, 300, 301, 600}

Seen == {0, 1, 300}

\* The records a registry file may hold at time t for the agents of ids.
Records(ids, t) ==
    {r \in [ids -> [team : Teams, role : {None}, workspace : {"W1"},
                    is_leader : {FALSE}, current_task : {None, "1"},
                    last_seen : Seen]] :
        \A a \in ids : r[a].last_seen <= t}

\* The registry of W1 holds records written earlier.
InitStatus ==
    /\ now \in Clock
    /\ resdir = <<>>
    /\ held = [a \in Agents |-> {}]
    /\ last = NoCall
    /\ lease = NoLease
    /\ proc = Idle
    /\ mail = [d \in MailDirs |-> {}]
    /\ cursor = [d \in MailDirs |-> [a \in Agents |-> 0]]
    /\ floor = [d \in MailDirs |-> [a \in Agents |-> 0]]
    /\ ws = [a \in Agents |-> "W1"]
    /\ team = [a \in Agents |-> "T1"]
    /\ S = [a \in Agents |-> NewState]
    /\ store = Backlog
    /\ \E ids \in SUBSET Agents : \E reg \in Records(ids, now) :
          registry = [w \in Workspaces |-> IF w = "W1" THEN reg ELSE <<>>]
    /\ agents = NoAgents

\* registry.get_agent(a).status (agent_registry.py:116-121, 37-44)
AgentStatus(a) ==
    /\ a \in DOMAIN registry["W1"]
    /\ last' = [op |-> "agent_status", agent |-> a,
                res |-> status(registry["W1"][a], now)]
    /\ UNCHANGED <<now, resdir, held, lease, proc, mailvars, workvars>>

GetStats ==
    /\ last' = [op |-> "get_stats", agent |-> "none",
                res |-> get_stats(registry["W1"], now)]
    /\ UNCHANGED <<now, resdir, held, lease, proc, mailvars, workvars>>

NextStatus ==
    \/ \E a \in Agents : AgentStatus(a)
    \/ GetStats

SpecStatus == InitStatus /\ [][NextStatus]_vars

\* The statuses of the records of W1's registry, as a function of the agent.
StatusNow == [a \in DOMAIN registry["W1"] |-> status(registry["W1"][a], now)]

\* C26: agent status is a total function of (now - last_seen, current_task).
\* Every record has exactly one of the three statuses at every time: offline
\* iff last_seen is not within the window (now - last_seen >= 300 s), working
\* iff it is within the window and a current task is set, online iff it is
\* within the window and no current task is set; a status query returns it,
\* and the counts of get_stats are the numbers of records of each status.
C26_StatusTotal ==
    /\ \A a \in DOMAIN registry["W1"] :
          LET r == registry["W1"][a]
              fresh == now - r.last_seen < OnlineWindow
              task == r.current_task # None
          IN /\ StatusNow[a] \in {"offline", "working", "online"}
             /\ StatusNow[a] = "offline" <=> ~fresh
             /\ StatusNow[a] = "working" <=> (fresh /\ task)
             /\ StatusNow[a] = "online" <=> (fresh /\ ~task)
    /\ last.op = "agent_status" => last.res = StatusNow[last.agent]
    /\ last.op = "get_stats"
       => LET n(st) == Cardinality({a \in DOMAIN StatusNow : StatusNow[a] = st})
          IN /\ last.res.working = n("working")
             /\ last.res.idle = n("online")
             /\ last.res.offline = n("offline")
             /\ last.res.active = n("working") + n("online")
             /\ last.res.total_registered = n("working") + n("online") + n("offline")

\* get_stats has counted one working agent and one offline agent whose record
\* is exactly 300 seconds old.
C26_Witness ==
    /\ last.op = "get_stats"
    /\ last.res.working = 1 /\ last.res.offline = 1
    /\ \E a \in DOMAIN registry["W1"] :
          /\ now - registry["W1"][a].last_seen = OnlineWindow
          /\ StatusNow[a] = "offline"

\* --------------------------------------------- the issue-store driver
\* How many bd calls the driver model follows.
MaxCalls == 2

\* The process whose bd calls are followed.
Drivers == {"A"}

\* What the daemon does with a request: the exchange succeeds, the socket is
\* gone at connect, the connect or the response times out, the daemon closes
\* the connection without a line, answers success = false, or answers a line
\* that is not JSON.
Outcomes24 ==
    {"ok", "socket_missing", "connect_timeout", "response_timeout", "closed",
     "error_response", "malformed"}

\* BdDaemonClient._send_request_unix (bd_daemon_client.py:132-190): what the
\* exchange raises, "none" when it returns the data.
send_request_unix(outcome) ==
    CASE outcome = "ok" -> "none"
      [] outcome = "socket_missing" -> "DaemonNotRunningError"
      [] outcome = "connect_timeout" -> "DaemonConnectionError"
      [] outcome \in {"response_timeout", "closed", "error_response"} -> "DaemonError"
      [] outcome = "malformed" -> "JSONDecodeError"

\* _bd_via_daemon (server.py:183-326): init, a create or update with tags
\* and a command the daemon has no operation for raise DaemonNotRunningError
\* before any request; sent tells whether a request went to the daemon.
bd_via_daemon(cmd, tagged, outcome) ==
    IF \/ cmd \in {"init", "doctor"}
       \/ (cmd \in {"create", "update"} /\ tagged)
    THEN [sent |-> FALSE, raised |-> "DaemonNotRunningError"]
    ELSE [sent |-> TRUE, raised |-> send_request_unix(outcome)]

\* DaemonConnectionError and DaemonNotRunningError are DaemonErrors
\* (bd_daemon_client.py:25-37); bd catches these (server.py:176).
Caught(exc) == exc \in {"DaemonError", "DaemonNotRunningError", "DaemonConnectionError"}

\* bd_sync (server.py:106-143): the reply of the child process.
bd_sync(cli_ok) == [via |-> "cli", ok |-> cli_ok, raised |-> "none"]

\* bd (server.py:166-181).  selected: _get_daemon_client returned a client
\* (server.py:146-163), which it does when BEADS_USE_DAEMON is on and the
\* socket file exists.
bd(use_daemon, sock, cmd, tagged, outcome, cli_ok) ==
    LET selected == use_daemon /\ sock
        r == bd_via_daemon(cmd, tagged, outcome)
        reply == IF ~selected THEN bd_sync(cli_ok)
                 ELSE IF r.raised = "none" THEN [via |-> "rpc", ok |-> TRUE, raised |-> "none"]
                 ELSE IF Caught(r.raised) THEN bd_sync(cli_ok)
                 ELSE [via |-> "none", ok |-> FALSE, raised |-> r.raised]
    IN [cmd |-> cmd, tagged |-> tagged, outcome |-> outcome, cli_ok |-> cli_ok,
        selected |-> selected, sent |-> selected /\ r.sent, reply |-> reply]

\* The calls of the model: the command, whether it carries --tag, what the
\* daemon does, and whether the child process succeeds.
BdCalls ==
    ({"init", "ready", "sync"} \X {FALSE} \X {"ok", "closed", "malformed"} \X BOOLEAN)
    \cup ({"update"} \X BOOLEAN \X Outcomes24 \X {TRUE})

Driving(use_daemon) ==
    [pc |-> "idle", use_daemon |-> use_daemon, sock |-> FALSE, calls |-> <<>>]

InitDriver ==
    /\ now = 1
    /\ resdir = <<>>
    /\ held = [a \in Agents |-> {}]
    /\ last = NoCall
    /\ lease = NoLease
    /\ \E use_daemon \in BOOLEAN :
          proc = [a \in Agents |-> IF a \in Drivers THEN Driving(use_daemon)
                                                    ELSE [pc |-> "idle"]]
    /\ mail = [d \in MailDirs |-> {}]
    /\ cursor = [d \in MailDirs |-> [a \in Agents |-> 0]]
    /\ floor = [d \in MailDirs |-> [a \in Agents |-> 0]]
    /\ ws = [a \in Agents |-> "W1"]
    /\ team = [a \in Agents |-> "T1"]
    /\ S = [a \in Agents |-> NewState]
    /\ store = Backlog
    /\ registry = [w \in Workspaces |-> <<>>]
    /\ agents = NoAgents

\* The bd daemon of the workspace starts or stops: its socket file appears
\* or disappears.
DaemonToggle(a) ==
    /\ proc' = [proc EXCEPT ![a].sock = ~@]
    /\ UNCHANGED <<now, resdir, held, last, lease, mailvars, workvars>>

\* One await bd(...) of a handler.
BdCall(a) ==
    /\ Len(proc[a].calls) < MaxCalls
    /\ \E c \in BdCalls :
          proc' = [proc EXCEPT ![a].calls =
                      Append(@, bd(proc[a].use_daemon, proc[a].sock,
                                   c[1], c[2], c[3], c[4]))]
    /\ UNCHANGED <<now, resdir, held, last, lease, mailvars, workvars>>

NextDriver ==
    \/ \E a \in Drivers : DaemonToggle(a)
    \/ \E a \in Drivers : BdCall(a)

SpecDriver == InitDriver /\ [][NextDriver]_vars

\* The step is a bd call of driver a.
Calls24(a) == Len(proc'[a].calls) = Len(proc[a].calls) + 1

\* C24: the driver fallback is per call.  A call for which the daemon path is
\* selected and fails with any RPC error (socket missing, connect or response
\* timeout, connection closed, error response, malformed response) is
\* completed by the child process and returns its reply; the daemon path is
\* selected whenever it is enabled and the socket exists, whatever earlier
\* calls did; init is never sent to the daemon.
C24_DriverFallback ==
    [][\A a \in Drivers :
          Calls24(a)
          => LET c == proc'[a].calls[Len(proc'[a].calls)]
             IN /\ c.selected <=> (proc[a].use_daemon /\ proc[a].sock)
                /\ c.cmd = "init" => (~c.sent /\ c.reply = bd_sync(c.cli_ok))
                /\ (c.sent /\ c.outcome # "ok") => c.reply = bd_sync(c.cli_ok)
                /\ (c.sent /\ c.outcome = "ok") => c.reply.via = "rpc"
      ]_vars

\* --------------------------------------------- switching workspace and team
\* A reserves, claims and closes, and moves between the workspaces and the
\* teams with init, all within one second.  Both workspaces are directories,
\* and reservations are made in W1.
SwitchInit ==
    \E x \in {<<None, None, TRUE>>, <<"W2", None, TRUE>>, <<"W2", "T2", TRUE>>,
               <<"W1", "T1", TRUE>>, <<"W2", None, FALSE>>} :
        RoomFor(2) /\ tool_init("A", x[1], x[2], None, FALSE, TRUE, x[3])

SwitchReserve ==
    ws["A"] = "W1" /\ ToolReserve("A", <<P_x>>, 1, {}) /\ LeaseNext

SwitchRelease == ws["A"] = "W1" /\ ToolRelease("A", <<>>) /\ LeaseNext

SwitchClaim == ws["A"] = "W1" /\ RoomFor(1) /\ tool_claim("A", TRUE, TRUE)

SwitchDone ==
    \E x \in {<<None, TRUE>>, <<"1", TRUE>>, <<"1", FALSE>>} :
        RoomFor(1) /\ tool_done("A", x[1], x[2])

SwitchMsg == \E global_broadcast \in BOOLEAN :
    RoomFor(1) /\ tool_msg("A", "hi", "all", global_broadcast)

NextSwitch ==
    \/ SwitchInit
    \/ SwitchReserve
    \/ SwitchRelease
    \/ SwitchClaim
    \/ SwitchDone
    \/ SwitchMsg

SpecSwitch == Init /\ [][NextSwitch]_vars

\* Agent a holds a live record for path p in the reservation directory dir
\* at time t.
LiveOwn(dir, a, p, t) ==
    /\ Parses(dir, ResFile(p))
    /\ dir[ResFile(p)].rec.agent = a
    /\ dir[ResFile(p)].rec.expires > t

\* The step is a done call of a that returned ok.
DoneOk(a) == Called("done") /\ last'.agent = a /\ "ok" \in DOMAIN last'.res

\* C22: the postcondition of done.  After a successful done of a, no live
\* record of a remains for a path a was granted and had not released, in the
\* workspace where it was granted; a's held set is empty; its current task is
\* cleared; its completed counter has grown by exactly one; and a message
\* done:<id> of a has been written.
C22_DonePostcondition ==
    [][\A a \in Agents :
          DoneOk(a)
          => /\ \A p \in held[a] : ~LiveOwn(resdir', a, p, now)
             /\ held'[a] = {}
             /\ S'[a].current_task = None /\ S'[a].issue = None
             /\ S'[a].done = S[a].done + 1 /\ last'.res.done = S'[a].done
             /\ \E d \in MailDirs : \E f \in mail'[d] \ mail[d] :
                   /\ f.msg.f = a
                   /\ f.msg.s \in {"done:" \o i : i \in Ids(store)}
      ]_vars

\* The step is an init call of a that returned ok.
InitOk(a) == Called("init") /\ last'.agent = a /\ "ok" \in DOMAIN last'.res

\* The new files of directory d with subject subj written by a in this step.
NewMail(d, a, subj) == {f \in mail'[d] \ mail[d] : f.msg.f = a /\ f.msg.s = subj}

\* C23: the postcondition of init.  After a successful init(ws = W, team = T)
\* of a (an absent argument keeps the current value), a's workspace is W and
\* its team is T, T's registry directory holds a complete record of a for W
\* and T with last_seen set to the time of the call, and one new message
\* "join" of a is in W's mailbox and one in T's hub.  Every step of a that is
\* not an init leaves workspace and team as they are and writes mail,
\* workspace registry, team registry and reservations of the current
\* workspace and team only.
C23_InitPostcondition ==
    [][\A a \in Agents :
          /\ InitOk(a)
             => LET W == IF last'.ws # None THEN last'.ws ELSE ws[a]
                    T == IF last'.team # None THEN last'.team ELSE team[a]
                IN /\ ws'[a] = W /\ team'[a] = T
                   /\ last'.res.ws = W /\ last'.res.team = T
                   /\ a \in DOMAIN agents'[T]
                   /\ agents'[T][a].full
                   /\ agents'[T][a].rec.agent = a
                   /\ agents'[T][a].rec.ws = W /\ agents'[T][a].rec.team = T
                   /\ agents'[T][a].rec.last_seen = now
                   /\ Cardinality(NewMail(W, a, "join")) = 1
                   /\ Cardinality(NewMail(T, a, "join")) = 1
                   /\ \A f \in mail'[W] \ mail[W] : f.msg.ws = W
                   /\ \A f \in mail'[T] \ mail[T] : f.msg.ws = W
                   /\ a \in DOMAIN registry'[W]
                   /\ registry'[W][a].workspace = W /\ registry'[W][a].team = T
          /\ (now' = now /\ last'.agent = a /\ last'.op # "init")
             => /\ ws'[a] = ws[a] /\ team'[a] = team[a]
                /\ \A d \in MailDirs \ {ws[a], team[a]} : mail'[d] = mail[d]
                /\ \A d \in {ws[a], team[a]} : \A f \in mail'[d] \ mail[d] :
                      f.msg.f = a /\ f.msg.ws = ws[a]
                /\ \A w \in Workspaces \ {ws[a]} : registry'[w] = registry[w]
                /\ \A tm \in Teams \ {team[a]} : agents'[tm] = agents[tm]
                /\ resdir' # resdir => ws[a] = "W1"
      ]_vars

\* A, moved to workspace W2 and team T2 by a successful init, has then sent a
\* team message: it is in T2's hub and carries W2, and A's record is in T2's
\* registry directory.
C23_Witness ==
    /\ last.op = "msg" /\ last.agent = "A" /\ last.res.global
    /\ ws["A"] = "W2" /\ team["A"] = "T2"
    /\ "A" \in DOMAIN agents["T2"] /\ agents["T2"]["A"].rec.ws = "W2"
    /\ \E f \in mail["T2"] : f.msg.s = "hi" /\ f.msg.ws = "W2"
    /\ \E f \in mail["W2"] : f.msg.s = "join"

\* --------------------------------------------- the team registry, step by step
\* The window of get_active_agents, in seconds: max_age_minutes = 30
\* (server.py:611).
ActiveWindow == 1800

\* A process that publishes its record: where it is inside register_agent
\* or update_agent_heartbeat, the record it is about to write, and whether
\* a register_agent of it has completed.
Publishing == [pc |-> "idle", reg |-> <<>>, registered |-> FALSE]

InitPublish ==
    /\ now = 1
    /\ resdir = <<>>
    /\ held = [a \in Agents |-> {}]
    /\ last = NoCall
    /\ lease = NoLease
    /\ proc = [a \in Agents |-> Publishing]
    /\ mail = [d \in MailDirs |-> {}]
    /\ cursor = [d \in MailDirs |-> [a \in Agents |-> 0]]
    /\ Started

\* The registry directory dir with <a>.json holding content.
Written(dir, a, content) ==
    [b \in DOMAIN dir \cup {a} |-> IF b = a THEN content ELSE dir[b]]

\* open(reg_file, "w") of register_agent (server.py:590): the file is
\* created or truncated; json.dump has not written yet.
RegisterOpen(a) ==
    /\ proc[a].pc = "idle"
    /\ \E rec \in {Registration(a, ws[a], team[a], S[a])} :
          /\ agents' = [agents EXCEPT ![team[a]] =
                           Written(@, a, [full |-> FALSE, rec |-> rec])]
          /\ proc' = [proc EXCEPT ![a].pc = "register", ![a].reg = <<rec>>]
    /\ UNCHANGED <<now, resdir, held, last, lease, mailvars, floor, ws, team, S,
                   store, registry>>

\* json.dump and the close of the file (server.py:591): the record is there.
PublishWrite(a) ==
    /\ proc[a].pc \in {"register", "heartbeat"}
    /\ agents' = [agents EXCEPT ![team[a]] =
                     Written(@, a, [full |-> TRUE, rec |-> proc[a].reg[1]])]
    /\ proc' = [proc EXCEPT ![a].pc = "idle", ![a].reg = <<>>,
                            ![a].registered = @ \/ proc[a].pc = "register"]
    /\ UNCHANGED <<now, resdir, held, last, lease, mailvars, floor, ws, team, S,
                   store, registry>>

\* update_agent_heartbeat (server.py:596-608), up to the second open: the
\* file exists and parses, its record gets a new last_seen, and
\* open(reg_file, "w") truncates the file.
HeartbeatOpen(a) ==
    /\ proc[a].pc = "idle"
    /\ a \in DOMAIN agents[team[a]]
    /\ agents[team[a]][a].full
    /\ \E rec \in {[agents[team[a]][a].rec EXCEPT !.last_seen = now]} :
          /\ agents' = [agents EXCEPT ![team[a]] =
                           Written(@, a, [full |-> FALSE, rec |-> rec])]
          /\ proc' = [proc EXCEPT ![a].pc = "heartbeat", ![a].reg = <<rec>>]
    /\ UNCHANGED <<now, resdir, held, last, lease, mailvars, floor, ws, team, S,
                   store, registry>>

\* A heartbeat that publishes the record anew: registered is rewritten too.
update_agent_registration(dirs, tm, a) ==
    IF a \in DOMAIN dirs[tm] /\ dirs[tm][a].full
    THEN [dirs EXCEPT ![tm][a].rec.last_seen = now, ![tm][a].rec.registered = now]
    ELSE dirs

\* get_active_agents (server.py:611-635) of a process whose team is tm, at
\* time t: the records of the files that parse and were seen within the
\* window; a file that does not parse is passed over.
get_active_agents(dirs, tm, t) ==
    {dirs[tm][a].rec : a \in {b \in DOMAIN dirs[tm] :
                                 /\ dirs[tm][b].full
                                 /\ dirs[tm][b].rec.last_seen > t - ActiveWindow}}

\* tool_discover (server.py:1444-1467) of a process that is not inside a
\* registry write of its own; its heartbeat is HeartbeatOpen and
\* PublishWrite in one.
Discover(a) ==
    /\ proc[a].pc = "idle"
    /\ \E dirs \in {IF a \in DOMAIN agents[team[a]] /\ agents[team[a]][a].full
                    THEN [agents EXCEPT ![team[a]][a].rec.last_seen = now]
                    ELSE agents} :
          /\ agents' = dirs
          /\ last' = [op |-> "discover", agent |-> a,
                      res |-> [team |-> team[a],
                               agents |-> get_active_agents(dirs, team[a], now)]]
    /\ UNCHANGED <<now, resdir, held, lease, proc, mailvars, floor, ws, team, S,
                   store, registry>>

NextPublish ==
    \/ \E a \in Agents : RegisterOpen(a)
    \/ \E a \in Agents : PublishWrite(a)
    \/ \E a \in Agents : HeartbeatOpen(a)
    \/ \E a \in Agents : Discover(a)
    \/ Tick

SpecPublish == InitPublish /\ [][NextPublish]_vars

\* C25: registry publication is atomic for readers.  An enumeration of the
\* team registry made while another agent registers or heartbeats sees that
\* agent's previous complete record or its new one: every agent of the
\* reader's team whose register_agent has completed (and who keeps writing
\* heartbeats) is in the result of every discover.
C25_AtomicPublication ==
    [][Called("discover")
       => \A a \in Agents :
             (proc[a].registered /\ team[a] = team[last'.agent])
             => \E r \in last'.res.agents : r.agent = a
      ]_vars

\* --------------------------------------------- claim, step by step
\* A process inside tool_claim: the issue it picked from the ready list it
\* fetched, and (history) the ids its claim calls have returned.
Claiming == [pc |-> "idle", issue |-> <<>>, got |-> {}]

InitClaim ==
    /\ now = 1
    /\ resdir = <<>>
    /\ held = [a \in Agents |-> {}]
    /\ last = NoCall
    /\ lease = NoLease
    /\ proc = [a \in Agents |-> Claiming]
    /\ mail = [d \in MailDirs |-> {}]
    /\ cursor = [d \in MailDirs |-> [a \in Agents |-> 0]]
    /\ Started

\* tool_claim up to the pick (server.py:863-903): bd sync, bd ready, the
\* role filter and issues[0].  With nothing to pick the call returns.
ClaimFetch(a) ==
    /\ proc[a].pc = "idle"
    /\ \E r \in {Ready(store)} : \E issues \in {Matching(S[a].role, r)} :
          IF issues = <<>>
          THEN /\ last' = [op |-> "claim", agent |-> a,
                           res |-> [ok |-> 0,
                                    msg |-> IF r = <<>> THEN "no ready tasks"
                                            ELSE "no tasks for role '" \o S[a].role \o "'"]]
               /\ UNCHANGED proc
          ELSE /\ proc' = [proc EXCEPT ![a].pc = "picked", ![a].issue = <<issues[1]>>]
               /\ UNCHANGED last
    /\ UNCHANGED <<now, resdir, held, lease, mailvars, workvars>>

\* tool_claim from bd update on (server.py:906-928): the status is set
\* whatever it was, the session and the registry take the issue, the
\* message is sent and the issue is returned.
ClaimUpdate(a) ==
    /\ proc[a].pc = "picked"
    /\ RoomFor(1)
    /\ \E issue \in {proc[a].issue[1]} :
          /\ store' = SetStatus(store, issue.id, "in_progress")
          /\ S' = [S EXCEPT ![a].issue = issue.id, ![a].current_task = issue.id]
          /\ registry' = [registry EXCEPT ![ws[a]] = UpdateTask(@, a, issue.id)]
          /\ mail' = Post(mail, a, "claimed:" \o issue.id, "all", FALSE)
          /\ last' = [op |-> "claim", agent |-> a,
                      res |-> [id |-> issue.id, s |-> "in_progress", tags |-> issue.tags]]
          /\ proc' = [proc EXCEPT ![a].pc = "idle", ![a].issue = <<>>,
                                  ![a].got = @ \cup {issue.id}]
    /\ UNCHANGED <<now, resdir, held, lease, cursor, floor, ws, team, agents>>

\* done of the session's issue, closed by the store.
ClaimDone(a) ==
    /\ proc[a].pc = "idle"
    /\ S[a].issue # None
    /\ RoomFor(1)
    /\ tool_done(a, None, TRUE)

NextClaim ==
    \/ \E a \in Agents : ClaimFetch(a)
    \/ \E a \in Agents : ClaimUpdate(a)
    \/ \E a \in Agents : ClaimDone(a)

SpecClaim == InitClaim /\ [][NextClaim]_vars

\* C29: claim exclusivity.  Under any interleaving of the steps of claim
\* calls of different agents on one workspace, an issue that claim has
\* returned to one agent is returned to no other agent (no issue of the model
\* becomes ready again).
C29_ClaimExclusive ==
    [][(Called("claim") /\ "id" \in DOMAIN last'.res)
       => \A b \in Agents \ {last'.agent} : last'.res.id \notin proc[b].got
      ]_vars

\* --------------------------------------------- the workspace registry, step by step
\* registry.heartbeat (agent_registry.py:89-96)
Heartbeat(reg, a) ==
    IF a \in DOMAIN reg THEN [reg EXCEPT ![a] = [@ EXCEPT !.last_seen = now]] ELSE reg

\* registry.unregister (agent_registry.py:108-115)
Unregister(reg, a) == [b \in DOMAIN reg \ {a} |-> reg[b]]

\* The calls of the registry model: the method and its task argument.
RegistryCalls ==
    {<<"register", None>>, <<"heartbeat", None>>, <<"update_task", "1">>,
     <<"update_task", None>>, <<"unregister", None>>}

\* A process between the _load and the _save of a registry method: the
\* method, its argument and the dict it loaded; and (history) whether it is
\* registered and the task of its latest update_task.
Registering ==
    [pc |-> "idle", op |-> "none", task |-> None, loaded |-> <<>>,
     registered |-> FALSE, current |-> None]

InitRegistry ==
    /\ now = 1
    /\ resdir = <<>>
    /\ held = [a \in Agents |-> {}]
    /\ last = NoCall
    /\ lease = NoLease
    /\ proc = [a \in Agents |-> Registering]
    /\ mail = [d \in MailDirs |-> {}]
    /\ cursor = [d \in MailDirs |-> [a \in Agents |-> 0]]
    /\ Started

\* agents = self._load() (agent_registry.py:64-72) of register, heartbeat,
\* update_task and unregister; the last three return False without a save
\* when the agent is not in the dict.
RegistryLoad(a) ==
    /\ proc[a].pc = "idle"
    /\ \E c \in RegistryCalls :
          IF c[1] # "register" /\ a \notin DOMAIN registry[ws[a]]
          THEN UNCHANGED proc
          ELSE proc' = [proc EXCEPT ![a].pc = "loaded", ![a].op = c[1],
                                    ![a].task = c[2],
                                    ![a].loaded = <<registry[ws[a]]>>]
    /\ UNCHANGED <<now, resdir, held, last, lease, mailvars, workvars>>

\* The dict a method saves (agent_registry.py:83-86, 92-94, 101-104,
\* 111-113); register carries the session's current task (server.py:811).
Modified(a) ==
    LET agts == proc[a].loaded[1]
    IN CASE proc[a].op = "register"
              -> Register(agts, a, AgentInfo(team[a], S[a].role, ws[a], S[a].is_leader,
                                             proc[a].current))
         [] proc[a].op = "heartbeat" -> Heartbeat(agts, a)
         [] proc[a].op = "update_task" -> UpdateTask(agts, a, proc[a].task)
         [] proc[a].op = "unregister" -> Unregister(agts, a)

\* self._save(agents) (agent_registry.py:74-78): the file is rewritten with
\* the dict of this process.
RegistrySave(a) ==
    /\ proc[a].pc = "loaded"
    /\ registry' = [registry EXCEPT ![ws[a]] = Modified(a)]
    /\ proc' = [proc EXCEPT
          ![a].pc = "idle", ![a].op = "none", ![a].task = None, ![a].loaded = <<>>,
          ![a].registered = IF proc[a].op = "register" THEN TRUE
                            ELSE IF proc[a].op = "unregister" THEN FALSE ELSE @,
          ![a].current = IF proc[a].op = "update_task" THEN proc[a].task ELSE @]
    /\ UNCHANGED <<now, resdir, held, last, lease, mailvars, floor, ws, team, S,
                   store, agents>>

NextRegistry ==
    \/ \E a \in Agents : RegistryLoad(a)
    \/ \E a \in Agents : RegistrySave(a)

SpecRegistry == InitRegistry /\ [][NextRegistry]_vars

\* C30: the workspace registry loses no update.  Whenever no registry call
\* is under way, the registry of the workspace has an entry for every agent
\* that registered and did not unregister, with the current_task of that
\* agent's latest update_task.
C30_NoLostUpdate ==
    (\A a \in Agents : proc[a].pc = "idle")
    => \A a \in Agents :
          proc[a].registered
          => /\ a \in DOMAIN registry[ws[a]]
             /\ registry[ws[a]][a].current_task = proc[a].current

\* --------------------------------------------- recv: recipients and cursors
\* A sends, to all or to itself, into its workspace directory or the team
\* hub; B receives.
ReaderSend ==
    \E x \in {<<"all", FALSE>>, <<"A", FALSE>>, <<"all", TRUE>>} :
        /\ Cardinality(AllMail) < MaxMsgs
        /\ \A f \in AllMail : f.ts < now
        /\ send_msg("A", NextSubject("A"), x[1], x[2], 0)

ReaderRecv ==
    \E n \in Limits, x \in {<<TRUE, TRUE>>, <<TRUE, FALSE>>, <<FALSE, TRUE>>} :
        recv_msgs("B", n, x[1], x[2])

NextReader ==
    \/ ReaderSend
    \/ ReaderRecv
    \/ Tick

SpecReader == Init /\ [][NextReader]_vars

\* C36: recipient filtering.  Every message a recv of agent R returns, from
\* the workspace directory or from the team hub, with or without
\* unread_only, is addressed to "all" or to R.
C36_RecipientFilter ==
    [][Called("recv")
       => \A i \in 1..Len(last'.res) : last'.res[i].t \in {"all", last'.agent}
      ]_vars

\* B's recv went through a directory that holds a complete message addressed
\* to A, and returned one message, not that one.
C36_Witness ==
    /\ last.op = "recv" /\ last.agent = "B"
    /\ Len(last.res) = 1 /\ last.res[1].t = "all"
    /\ \E d \in Scope("B", last.include_global) : \E f \in mail[d] :
          f.full /\ f.msg.t = "A"


\* C35: after a recv that returns a non-empty list, the read cursor of every
\* directory in scope (the workspace directory, and the team hub when
\* include_global) is at the current time; after a recv that returns
\* nothing, no cursor is created or changed.
C35_CursorFrame ==
    [][Called("recv")
       => /\ last'.res # <<>>
               => \A d \in Scope(last'.agent, last'.include_global) :
                      cursor'[d][last'.agent] = now
          /\ last'.res = <<>> => cursor' = cursor
      ]_vars


\* C31: no addressed message is lost to the cursor.  A message addressed to
\* the reader or to "all", inside the window and unread when the reader calls
\* recv with unread_only, is returned by that call or is still unread after
\* it (so that a later recv with unread_only returns it), also when more than
\* n unread messages exist.
C31_NoLostMessage ==
    [][Called("recv") /\ last'.unread_only
       => \A d \in Scope(last'.agent, last'.include_global) : \A f \in mail[d] :
             (/\ f.full /\ InWindow(d, f)
              /\ f.msg.t \in {"all", last'.agent}
              /\ f.ts > cursor[d][last'.agent])
             => \/ Tagged(f.msg, d, last'.agent) \in Range(last'.res)
                \/ f.ts > cursor'[d][last'.agent]
      ]_vars


\* C32: the stream loop survives every input line.  No line, whether it is
\* not JSON, JSON that is not an object, or a request with null params, ends
\* the loop: the loop is reading, handling, or closed by end of input.
C32_LoopSurvives ==
    \A a \in Servers : proc[a].pc \in {"reading", "handling", "closed"}


\* C33: a failing init changes nothing.  When init returns an error, the
\* caller's workspace, team, role and leader flag keep the values they had,
\* no registry record is written and no join message is sent.
C33_FailedInitFrame ==
    [][Called("init") /\ "error" \in DOMAIN last'.res
       => UNCHANGED <<ws, team, S, registry, agents, mail>>
      ]_vars


\* The registry record of agent a in the registry of its workspace.
Tracked(reg, w, a) == a \in DOMAIN reg[w[a]]

\* C34: task tracking.  After a successful claim of issue i the session's
\* current task is i and the agent's registry entry has current_task = i and
\* last_seen = now; after a successful done both are cleared; and whenever a
\* call has returned, the registry entry's current_task equals the session's
\* current task.
C34_TaskTracking ==
    [][/\ (Called("claim") /\ "id" \in DOMAIN last'.res)
            => /\ S'[last'.agent].current_task = last'.res.id
               /\ Tracked(registry', ws', last'.agent)
               /\ registry'[ws'[last'.agent]][last'.agent].current_task = last'.res.id
               /\ registry'[ws'[last'.agent]][last'.agent].last_seen = now
       /\ (Called("done") /\ "ok" \in DOMAIN last'.res)
            => /\ S'[last'.agent].current_task = None
               /\ Tracked(registry', ws', last'.agent)
                    => registry'[ws'[last'.agent]][last'.agent].current_task = None
       /\ \A a \in Agents :
             Tracked(registry', ws', a)
             => registry'[ws'[a]][a].current_task = S'[a].current_task
      ]_vars


\* --------------------------------------------- heartbeats
\* update_agent_heartbeat (server.py:596-608) as one call, on the registry
\* directories dirs for the team tm: the file of a exists and parses, and is
\* rewritten with a new last_seen; otherwise nothing is written.
update_agent_heartbeat(dirs, tm, a) ==
    IF a \in DOMAIN dirs[tm] /\ dirs[tm][a].full
    THEN [dirs EXCEPT ![tm][a].rec.last_seen = now]
    ELSE dirs

\* tool_status (server.py:1470-1502): the heartbeat, then the counts.
tool_status(a) ==
    \E dirs \in {update_agent_heartbeat(agents, team[a], a)} :
       /\ agents' = dirs
       /\ last' = [op |-> "status", agent |-> a,
                   res |-> [agent |-> a, ws |-> ws[a], team |-> team[a],
                            open |-> Cardinality({i \in 1..Len(store) :
                                                    store[i].status = "open"}),
                            current |-> S[a].issue,
                            reserved |-> Cardinality(held[a]),
                            team_agents |->
                                Cardinality(get_active_agents(dirs, team[a], now))]]
       /\ UNCHANGED <<now, resdir, held, lease, proc, mailvars, floor, ws, team, S,
                      store, registry>>

\* registry.heartbeat (agent_registry.py:89-96) as one call of a.
RegistryBeat(a) ==
    /\ registry' = [registry EXCEPT ![ws[a]] = Heartbeat(@, a)]
    /\ last' = [op |-> "heartbeat", agent |-> a, res |-> a \in DOMAIN registry[ws[a]]]
    /\ UNCHANGED <<now, resdir, held, lease, proc, mailvars, floor, ws, team, S,
                   store, agents>>

\* A and B join, A claims, and A heartbeats.
BeatInit ==
    \E a \in Agents : RoomFor(2) /\ tool_init(a, None, None, None, FALSE, TRUE, TRUE)

BeatClaim == RoomFor(1) /\ tool_claim("A", TRUE, TRUE)

NextBeat ==
    \/ BeatInit
    \/ BeatClaim
    \/ tool_status("A")
    \/ Discover("A")
    \/ RegistryBeat("A")
    \/ Tick

SpecBeat == Init /\ [][NextBeat]_vars

\* The record of a in the collection recs (a team's registry directory or a
\* workspace's registry), with the field last_seen left out.
Lasting(r) == [k \in DOMAIN r \ {"last_seen"} |-> r[k]]

\* C38: heartbeat changes only the last_seen of the caller's own record.  A
\* call that heartbeats (status, discover, registry.heartbeat) creates and
\* removes no record, leaves every other agent's record as it was, and
\* leaves every field but last_seen of the caller's own record as it was;
\* without a record of the caller nothing changes.
C38_HeartbeatFrame ==
    [][(Called("status") \/ Called("discover") \/ Called("heartbeat"))
       => /\ \A tm \in Teams :
               /\ DOMAIN agents'[tm] = DOMAIN agents[tm]
               /\ \A b \in DOMAIN agents[tm] :
                     /\ agents'[tm][b].full = agents[tm][b].full
                     /\ Lasting(agents'[tm][b].rec) = Lasting(agents[tm][b].rec)
                     /\ (b # last'.agent \/ tm # team[last'.agent])
                          => agents'[tm][b] = agents[tm][b]
          /\ \A w \in Workspaces :
               /\ DOMAIN registry'[w] = DOMAIN registry[w]
               /\ \A b \in DOMAIN registry[w] :
                     /\ Lasting(registry'[w][b]) = Lasting(registry[w][b])
                     /\ (b # last'.agent \/ w # ws[last'.agent])
                          => registry'[w][b] = registry[w][b]
      ]_vars

\* A status call has refreshed the caller's record, registered earlier, next
\* to the record of another agent.
C38_Witness ==
    /\ last.op = "status"
    /\ last.agent \in DOMAIN agents[team[last.agent]]
    /\ agents[team[last.agent]][last.agent].rec.last_seen = now
    /\ agents[team[last.agent]][last.agent].rec.registered < now
    /\ \E b \in DOMAIN agents[team[last.agent]] : b # last.agent


\* --------------------------------------------- ready and ls
\* How many issues the store of the paging model holds at most.
MaxIssues == 11

\* The limit _bd_via_daemon sends with ready (server.py:199) and with list
\* (server.py:213) when the arguments of bd carry no --limit.
ReadyDefault == 5
ListDefault == 10

\* The caps of tool_ready (server.py:1187) and tool_ls (server.py:1145).
ReadyCap == 20
ListCap == 50

\* The smaller of two numbers (min).
Least(x, y) == IF x <= y THEN x ELSE y

\* seq[lo:hi] for 0 <= lo.
Slice(seq, lo, hi) == SubSeq(seq, lo + 1, Least(hi, Len(seq)))

\* A store of n issues, the first of them closed when closed is true.
Issues(n, closed) ==
    [k \in 1..n |-> [id |-> k, status |-> IF closed /\ k = 1 THEN "closed" ELSE "open",
                     tags |-> <<>>]]

\* The store's list capability: the issues with a status.
WithStatus(st, wanted) == SelectSeq(st, LAMBDA i : i.status = wanted)

\* bd("ready") (server.py:166-181, 1189): over RPC _bd_via_daemon asks the
\* daemon with limit 5, tool_ready's arguments of bd carrying no --limit
\* (server.py:198-208, bd_daemon_client.py:329-334); the child process runs
\* `bd ready --json` (server.py:113-117), taken here to print every ready
\* issue.
bd_ready(rpc, st) ==
    IF rpc THEN Slice(Ready(st), 0, ReadyDefault) ELSE Ready(st)

\* bd("list", "--status", wanted) (server.py:1148): over RPC the daemon is
\* asked with limit 10 (server.py:210-224, bd_daemon_client.py:313-327).
bd_list(rpc, st, wanted) ==
    IF rpc THEN Slice(WithStatus(st, wanted), 0, ListDefault) ELSE WithStatus(st, wanted)

\* The driver bd selects for a (server.py:146-163, 171-172).
ViaRpc(a) == proc[a].use_daemon /\ proc[a].sock

\* tool_ready (server.py:1185-1218)
tool_ready(a, lim) ==
    \E limit \in {Least(lim, ReadyCap)} :
    \E r \in {bd_ready(ViaRpc(a), store)} :
    \E paginated \in {Slice(r, 0, limit)} :
       /\ last' = [op |-> "ready", agent |-> a, limit |-> lim, offset |-> 0,
                   res |-> [items |-> [k \in 1..Len(paginated) |-> paginated[k].id],
                            total |-> Len(r), count |-> Len(paginated),
                            has_more |-> limit < Len(r)]]
       /\ UNCHANGED <<now, resdir, held, lease, proc, mailvars, workvars>>

\* tool_ls (server.py:1142-1180) with the default status, open.
tool_ls(a, lim, offset) ==
    \E limit \in {Least(lim, ListCap)} :
    \E r \in {bd_list(ViaRpc(a), store, "open")} :
    \E paginated \in {Slice(r, offset, offset + limit)} :
       /\ last' = [op |-> "ls", agent |-> a, limit |-> lim, offset |-> offset,
                   res |-> [items |-> [k \in 1..Len(paginated) |-> paginated[k].id],
                            total |-> Len(r), count |-> Len(paginated),
                            offset |-> offset,
                            has_more |-> offset + limit < Len(r),
                            next_offset |-> IF offset + limit < Len(r)
                                            THEN offset + limit ELSE -1]]
       /\ UNCHANGED <<now, resdir, held, lease, proc, mailvars, workvars>>

InitPage ==
    /\ now = 1
    /\ resdir = <<>>
    /\ held = [a \in Agents |-> {}]
    /\ last = NoCall
    /\ lease = NoLease
    /\ \E use_daemon \in BOOLEAN :
          proc = [a \in Agents |-> IF a \in Drivers THEN Driving(use_daemon)
                                                    ELSE [pc |-> "idle"]]
    /\ mail = [d \in MailDirs |-> {}]
    /\ cursor = [d \in MailDirs |-> [a \in Agents |-> 0]]
    /\ floor = [d \in MailDirs |-> [a \in Agents |-> 0]]
    /\ ws = [a \in Agents |-> "W1"]
    /\ team = [a \in Agents |-> "T1"]
    /\ S = [a \in Agents |-> NewState]
    /\ \E n \in 0..MaxIssues, closed \in BOOLEAN : store = Issues(n, closed)
    /\ registry = [w \in Workspaces |-> <<>>]
    /\ agents = NoAgents

PageReady == \E a \in Drivers, lim \in {2, 6, 25} : tool_ready(a, lim)

PageLs ==
    \E a \in Drivers, x \in {<<5, 0>>, <<5, 5>>, <<5, 10>>, <<11, 0>>, <<60, 0>>} :
        tool_ls(a, x[1], x[2])

NextPage ==
    \/ \E a \in Drivers : DaemonToggle(a)
    \/ PageReady
    \/ PageLs

SpecPage == InitPage /\ [][NextPage]_vars

\* C37: ready and ls honour their limits alike over both drivers.  ready with
\* limit L returns the first min(L, 20) ready issues, total the number of
\* ready issues and has_more iff more remain; ls with limit L and offset o
\* returns the matching issues o .. o + min(L, 50) - 1, total the number of
\* matching issues, has_more iff more remain and next_offset the offset after
\* the page; whatever driver served the call.
C37_LimitsAlike ==
    [][/\ Called("ready")
            => LET all == Ready(store)
                   limit == Least(last'.limit, ReadyCap)
                   page == Slice(all, 0, limit)
               IN /\ last'.res.items = [k \in 1..Len(page) |-> page[k].id]
                  /\ last'.res.count = Least(limit, Len(all))
                  /\ last'.res.total = Len(all)
                  /\ last'.res.has_more = (limit < Len(all))
       /\ Called("ls")
            => LET all == WithStatus(store, "open")
                   limit == Least(last'.limit, ListCap)
                   page == Slice(all, last'.offset, last'.offset + limit)
               IN /\ last'.res.items = [k \in 1..Len(page) |-> page[k].id]
                  /\ last'.res.total = Len(all)
                  /\ last'.res.has_more = (last'.offset + limit < Len(all))
                  /\ last'.res.next_offset = IF last'.offset + limit < Len(all)
                                             THEN last'.offset + limit ELSE -1
      ]_vars


\* --------------------------------------------- ttl over the two transports
\* A ttl argument: a JSON number, or a JSON string as its characters.
IntArg(n) == [kind |-> "int", n |-> n]
StrArg(chars) == [kind |-> "str", chars |-> chars]

Numerals == <<"0", "1", "2", "3", "4", "5", "6", "7", "8", "9">>

IsNumeral(c) == \E i \in 1..10 : Numerals[i] = c

\* str.isdigit() on the characters of the model: not empty, numerals only.
IsDigit(chars) == chars # <<>> /\ \A i \in 1..Len(chars) : IsNumeral(chars[i])

\* int(val) of a string of numerals.
RECURSIVE IntOf(_)
IntOf(chars) ==
    IF chars = <<>> THEN 0
    ELSE IntOf(SubSeq(chars, 1, Len(chars) - 1)) * 10
         + (CHOOSE i \in 0..9 : Numerals[i + 1] = chars[Len(chars)])

\* val.lower(), on the letters of the model's inputs.
LowerChars(chars) ==
    [i \in 1..Len(chars) |-> CASE chars[i] = "H" -> "h"
                               [] chars[i] = "M" -> "m"
                               [] chars[i] = "S" -> "s"
                               [] OTHER -> chars[i]]

\* val.strip()
RECURSIVE StripChars(_)
StripChars(chars) ==
    IF chars = <<>> THEN chars
    ELSE IF chars[1] = " " THEN StripChars(Tail(chars))
    ELSE IF chars[Len(chars)] = " " THEN StripChars(SubSeq(chars, 1, Len(chars) - 1))
    ELSE chars

\* float(val) on numerals and at most one point: <<num, den>> for the value
\* num / den, or <<>> when float raises ValueError.
FloatOf(chars) ==
    LET points == {i \in 1..Len(chars) : chars[i] = "."}
        numerals == SelectSeq(chars, IsNumeral)
    IN IF /\ Cardinality(points) <= 1
          /\ numerals # <<>>
          /\ Len(numerals) + Cardinality(points) = Len(chars)
       THEN <<IntOf(numerals),
              IF points = {} THEN 1
              ELSE LET p == CHOOSE i \in points : TRUE
                       pow[k \in 0..Len(chars)] == IF k = 0 THEN 1 ELSE 10 * pow[k - 1]
                   IN pow[Len(chars) - p]>>
       ELSE <<>>

\* preprocess_args on ttl (http_server.py:105-128)
preprocess_ttl(t) ==
    IF t.kind # "str" THEN t
    ELSE IF IsDigit(t.chars) THEN IntArg(IntOf(t.chars))
    ELSE LET val == StripChars(LowerChars(t.chars))
             suffix == IF val = <<>> THEN "" ELSE val[Len(val)]
             mult == CASE suffix = "h" -> 3600 [] suffix = "m" -> 60 [] OTHER -> 1
             body == IF suffix \in {"h", "m", "s"} THEN SubSeq(val, 1, Len(val) - 1)
                     ELSE val
             f == FloatOf(body)
         IN IF f = <<>> THEN t ELSE IntArg((f[1] * mult) \div f[2])

\* The ttl arguments of the model's reserve calls.
TtlArgs ==
    { IntArg(600), StrArg(<<"6", "0", "0">>), StrArg(<<"1", "0", "m">>),
      StrArg(<<"1", "h">>), StrArg(<<"3", "0", "s">>), StrArg(<<"1", "0", "M">>),
      StrArg(<<"1", ".", "5", "h">>), StrArg(<<" ", "6", "0", "0">>),
      StrArg(<<"a", "b", "c">>), StrArg(<<"m">>), StrArg(<<>>) }

\* tool_reserve of path x (server.py:1272-1333) with the ttl value t, called
\* over the transport via with the ttl argument arg.  A ttl that is not a
\* number makes timedelta raise TypeError (server.py:1293) before anything
\* is written, and both transports answer with an error.
ReserveWith(a, via, arg, t) ==
    IF t.kind = "int"
    THEN /\ LET st == ReserveLoop(ReserveStart(a), a, <<P_x>>, t.n, now, {})
            IN /\ resdir' = st.dir
               /\ held' = [held EXCEPT ![a] = st.held]
               /\ last' = [op |-> "reserve", agent |-> a, paths |-> <<P_x>>,
                           via |-> via, ttl |-> arg,
                           res |-> ReserveReply(st.granted, st.conflicts, st.errors,
                                                now + t.n)]
         /\ LeaseNext
         /\ UNCHANGED <<now, proc, mailvars, workvars>>
    ELSE /\ last' = [op |-> "reserve", agent |-> a, paths |-> <<P_x>>,
                     via |-> via, ttl |-> arg, res |-> [error |-> <<"TypeError">>]]
         /\ UNCHANGED <<now, resdir, held, lease, proc, mailvars, workvars>>

\* tools/call of reserve over the stream (server.py:1776-1782): the handler
\* gets the arguments as they were sent.
StreamReserve(t) == ReserveWith("A", "stream", t, t)

\* tools/call of reserve over HTTP (http_server.py:132-143): the handler
\* gets the arguments preprocess_args returns.
HttpReserve(t) == ReserveWith("A", "http", t, preprocess_ttl(t))

TtlRelease == ToolRelease("A", <<>>) /\ LeaseNext

NextTtl ==
    \/ \E t \in TtlArgs : StreamReserve(t)
    \/ \E t \in TtlArgs : HttpReserve(t)
    \/ TtlRelease
    \/ Tick

SpecTtl == Init /\ [][NextTtl]_vars

\* The seconds of a ttl string by the table of the coercion: numerals only
\* give that integer, numerals followed by h, m or s give n x 3600, n x 60
\* or n; <<>> for any other string.
TableSeconds(chars) ==
    IF IsDigit(chars) THEN <<IntOf(chars)>>
    ELSE IF Len(chars) > 1 /\ chars[Len(chars)] \in {"h", "m", "s"}
            /\ IsDigit(SubSeq(chars, 1, Len(chars) - 1))
    THEN <<IntOf(SubSeq(chars, 1, Len(chars) - 1))
           * (CASE chars[Len(chars)] = "h" -> 3600
                [] chars[Len(chars)] = "m" -> 60
                [] OTHER -> 1)>>
    ELSE <<>>

\* C39: ttl coercion is applied before dispatch on both transports.  A
\* reserve whose ttl is a string of numerals, or numerals followed by h, m
\* or s, sent over the stream or over HTTP, is handled with the number of
\* seconds of the table: the path is granted and expires at now plus that
\* number.
C39_TtlUniform ==
    [][(/\ Called("reserve")
        /\ last'.ttl.kind = "str" /\ TableSeconds(last'.ttl.chars) # <<>>)
       => /\ "expires" \in DOMAIN last'.res
          /\ last'.res.expires = <<now + TableSeconds(last'.ttl.chars)[1]>>
      ]_vars


\* --------------------------------------------- the event stream of the HTTP transport
\* How many events the model lets a stream emit, and how many requests it
\* lets the client post meanwhile.
MaxEvents == 3
MaxReplies == 2

\* The route of mcp_post (http_server.py:218).
PostUri == "/mcp"

\* An endpoint event that carries a JSON object.
EndpointObject == [event |-> "endpoint", data |-> "{\"uri\": \"/mcp\"}"]

\* The first yield of event_generator (http_server.py:197-200).
EndpointEvent == [event |-> "endpoint", data |-> "/mcp"]

\* The yield of the loop (http_server.py:209-212).
PingEvent == [event |-> "ping", data |-> "{}"]

\* A connection to GET /mcp before the generator runs: where the generator
\* is, the events it has emitted, whether the client is still there, whether
\* is_disconnected has returned true, and the replies of mcp_post.
Streaming ==
    [pc |-> "start", events |-> <<>>, connected |-> TRUE, observed |-> FALSE,
     replies |-> <<>>]

InitSse ==
    /\ now = 1
    /\ resdir = <<>>
    /\ held = [a \in Agents |-> {}]
    /\ last = NoCall
    /\ lease = NoLease
    /\ proc = [a \in Agents |-> IF a \in Servers THEN Streaming ELSE [pc |-> "idle"]]
    /\ mail = [d \in MailDirs |-> {}]
    /\ cursor = [d \in MailDirs |-> [a \in Agents |-> 0]]
    /\ Started

\* event_generator up to its first yield (http_server.py:192-200).
SseOpen(a) ==
    /\ proc[a].pc = "start"
    /\ proc' = [proc EXCEPT ![a].events = Append(@, EndpointEvent), ![a].pc = "check"]
    /\ UNCHANGED <<now, resdir, held, last, lease, mailvars, workvars>>

\* if await request.is_disconnected(): break (http_server.py:204-208)
SseCheck(a) ==
    /\ proc[a].pc = "check"
    /\ proc' = [proc EXCEPT ![a].pc = IF proc[a].connected THEN "ping" ELSE "ended",
                            ![a].observed = ~proc[a].connected]
    /\ UNCHANGED <<now, resdir, held, last, lease, mailvars, workvars>>

\* yield ping (http_server.py:209-212)
SsePing(a) ==
    /\ proc[a].pc = "ping"
    /\ Len(proc[a].events) < MaxEvents
    /\ proc' = [proc EXCEPT ![a].events = Append(@, PingEvent), ![a].pc = "sleep"]
    /\ UNCHANGED <<now, resdir, held, last, lease, mailvars, workvars>>

\* await asyncio.sleep(15) (http_server.py:213)
SseSleep(a) ==
    /\ proc[a].pc = "sleep"
    /\ proc' = [proc EXCEPT ![a].pc = "check"]
    /\ UNCHANGED <<now, resdir, held, last, lease, mailvars, workvars>>

\* The client goes away.
SseDisconnect(a) ==
    /\ proc[a].pc # "ended"
    /\ proc[a].connected
    /\ proc' = [proc EXCEPT ![a].connected = FALSE]
    /\ UNCHANGED <<now, resdir, held, last, lease, mailvars, workvars>>

\* mcp_post of a tools/call while the stream is open (http_server.py:239-258,
\* 292-301): the tool's result, or the error of an exception, is the body of
\* the HTTP response.
SsePost(a) ==
    /\ Len(proc[a].replies) < MaxReplies
    /\ \E kind \in {"result", "error"} :
          proc' = [proc EXCEPT ![a].replies =
                      Append(@, [kind |-> kind, id |-> Len(proc[a].replies) + 1])]
    /\ UNCHANGED <<now, resdir, held, last, lease, mailvars, workvars>>

NextSse ==
    \/ \E a \in Servers : SseOpen(a)
    \/ \E a \in Servers : SseCheck(a)
    \/ \E a \in Servers : SsePing(a)
    \/ \E a \in Servers : SseSleep(a)
    \/ \E a \in Servers : SseDisconnect(a)
    \/ \E a \in Servers : SsePost(a)

SpecSse == InitSse /\ [][NextSse]_vars

\* The events of a stream so far: none before the generator's first yield,
\* then one endpoint event whose data is the POST URI, then pings only.
StreamShape(a) ==
    LET ev == proc[a].events
    IN /\ proc[a].pc = "start" <=> ev = <<>>
       /\ ev # <<>> => ev[1] = [event |-> "endpoint", data |-> PostUri]
       /\ \A i \in 2..Len(ev) : ev[i].event = "ping"

\* C40: the event-stream protocol.  The first event of the stream is one
\* endpoint event whose data is the POST URI string, every later event is a
\* ping (so no tool result is on the stream, whatever is posted meanwhile),
\* and once the disconnect of the client has been observed the generator has
\* ended and no step adds an event.
C40_EventStream ==
    [][\A a \in Servers :
          /\ StreamShape(a)'
          /\ proc'[a].observed => proc'[a].pc = "ended"
          /\ proc[a].observed
               => /\ proc'[a].events = proc[a].events
                  /\ proc'[a].pc = "ended"
      ]_vars

\* The client has posted a tools/call and got its reply, the stream has
\* emitted the endpoint event and a ping, and the generator has ended on the
\* observed disconnect.
C40_Witness ==
    \E a \in Servers :
       /\ proc[a].pc = "ended" /\ proc[a].observed
       /\ Len(proc[a].events) >= 2
       /\ \E i \in 1..Len(proc[a].replies) : proc[a].replies[i].kind = "result"

====
